---- MODULE Spec2Model ----
(***************************************************************************)
(* A model of pyfoma (src/pyfoma.py): weighted finite-state transducers    *)
(* over the tropical semiring and the part of the regex compiler that      *)
(* drives them.                                                            *)
(*                                                                         *)
(* Objects.  A Python FST object is a record                               *)
(*   [initialstate, states, finalstates, alphabet, st]                     *)
(* where st is the sequence of the State objects the FST has created or    *)
(* refers to; a State object is identified by its index in st.  A State    *)
(* is a record [transitions, tobj, tin, tout, finalweight]:                *)
(*   tobj         the Transition objects created at this state, each       *)
(*                [targetstate, label, weight]; a Transition object is     *)
(*                identified by its index in tobj (object identity, so     *)
(*                two objects with equal fields are two transitions);      *)
(*   transitions  the dict label -> set of Transition objects, kept as a   *)
(*                sequence of [key, ids] in insertion order (Python dicts  *)
(*                iterate in insertion order);                             *)
(*   tin, tout    the lazily built indices _transitionsin and              *)
(*                _transitionsout ([built |-> FALSE] is None).             *)
(* Weights are floats in the source and integers here; Inf, NegInf and NaN *)
(* stand for the IEEE values.  Iteration over a Python set has no defined  *)
(* order: where the order does not change the result the model iterates in *)
(* a fixed order, where it does the order is an input of the operator.     *)
(***************************************************************************)
EXTENDS Integers, Sequences, FiniteSets, TLC

VARIABLES heap, pc, snap, out

vars == <<heap, pc, snap, out>>

----------------------------------------------------------------------------
(* Weights *)

Inf == 1000000
NegInf == -1000000
NaN == -2000000

IsNum(x) == x \notin {Inf, NegInf, NaN}

\* float addition x + y
WAdd(x, y) ==
  IF x = NaN \/ y = NaN THEN NaN
  ELSE IF (x = Inf /\ y = NegInf) \/ (x = NegInf /\ y = Inf) THEN NaN
  ELSE IF x = Inf \/ y = Inf THEN Inf
  ELSE IF x = NegInf \/ y = NegInf THEN NegInf
  ELSE x + y

WNeg(x) == IF x = NaN THEN NaN ELSE IF x = Inf THEN NegInf ELSE IF x = NegInf THEN Inf ELSE 0 - x

\* float subtraction x - y
WSub(x, y) == WAdd(x, WNeg(y))

\* min of two floats (neither is NaN where the source takes a min)
WMin(x, y) == IF y < x THEN y ELSE x

\* min(...) of a non-empty set of floats
MinOf(S) == CHOOSE x \in S : \A y \in S : x <= y

\* min of a set of floats, float("inf") when the set is empty
MinOrInf(S) == IF S = {} THEN Inf ELSE MinOf(S)

----------------------------------------------------------------------------
(* Sequences and sets *)

Range(s) == {s[i] : i \in 1..Len(s)}

\* The elements of a finite set in a fixed order.
RECURSIVE SetToSeq(_)
SetToSeq(S) ==
  IF S = {} THEN <<>>
  ELSE LET x == CHOOSE y \in S : TRUE IN <<x>> \o SetToSeq(S \ {x})

\* The elements of a finite set of integers in increasing order.
RECURSIVE SortedSeq(_)
SortedSeq(S) ==
  IF S = {} THEN <<>>
  ELSE LET x == CHOOSE y \in S : \A z \in S : y <= z IN <<x>> \o SortedSeq(S \ {x})

\* The position of k in the increasing enumeration of S.
Rank(S, k) == Cardinality({x \in S : x < k}) + 1

Last(s) == s[Len(s)]

\* The element of a one-element set.  The({e(x) : x \in {v}}) is e(v) with v
\* worked out once, which the loops below use for the value they carry along.
The(S) == CHOOSE x \in S : TRUE

----------------------------------------------------------------------------
(* Labels *)

\* all(len(sublabel) == 0 for sublabel in lbl)
IsEpsilon(lbl) == \A i \in 1..Len(lbl) : lbl[i] = ""

----------------------------------------------------------------------------
(* class Transition, class State *)

Transition(targetstate, label, weight) ==
  [targetstate |-> targetstate, label |-> label, weight |-> weight]

None == [built |-> FALSE, idx |-> <<>>]

\* State.__init__
State(finalweight) ==
  [transitions |-> <<>>, tobj |-> <<>>, tin |-> None, tout |-> None,
   finalweight |-> finalweight]

NewState == State(Inf)

\* position of key in the dict, 0 when absent
KeyPos(s, key) ==
  LET P == {i \in 1..Len(s.transitions) : s.transitions[i].key = key}
  IN IF P = {} THEN 0 ELSE CHOOSE i \in P : TRUE

\* s.transitions.get(key, set())
TransGet(s, key) == IF KeyPos(s, key) = 0 THEN {} ELSE s.transitions[KeyPos(s, key)].ids

\* State.add_transition: a new Transition object, put under its label; the
\* lazy indices are left as they are.
add_transition(s, other, label, weight) ==
  LET id == Len(s.tobj) + 1
      p == KeyPos(s, label)
  IN [s EXCEPT
        !.tobj = Append(@, Transition(other, label, weight)),
        !.transitions =
           IF p = 0 THEN Append(@, [key |-> label, ids |-> {id}])
           ELSE [@ EXCEPT ![p].ids = @ \cup {id}]]

\* State.all_transitions, as the sequence of <<label, transition id>> in the
\* dict's order (the transitions under one label in a fixed order).
RECURSIVE AllFrom(_, _)
AllFrom(s, i) ==
  IF i > Len(s.transitions) THEN <<>>
  ELSE [j \in 1..Cardinality(s.transitions[i].ids) |->
          <<s.transitions[i].key, SortedSeq(s.transitions[i].ids)[j]>>]
       \o AllFrom(s, i + 1)

all_transitions(s) == AllFrom(s, 1)

\* the same as a set of <<label, transition id>>
TransSet(s) ==
  UNION {{<<s.transitions[i].key, id>> : id \in s.transitions[i].ids} :
           i \in 1..Len(s.transitions)}

\* add the transitions <<target, label, weight>> of the sequence adds, in order
RECURSIVE AddSeq(_, _)
AddSeq(s, adds) ==
  IF adds = <<>> THEN s
  ELSE AddSeq(add_transition(s, adds[1][1], adds[1][2], adds[1][3]), Tail(adds))

\* State.all_targets
all_targets(s) == {s.tobj[x[2]].targetstate : x \in TransSet(s)}

\* State.all_targets_cheapest: target -> cheapest weight of a transition to it
all_targets_cheapest(s) ==
  [t \in all_targets(s) |->
     MinOf({s.tobj[x[2]].weight : x \in {y \in TransSet(s) : s.tobj[y[2]].targetstate = t}})]

\* State.all_epsilon_targets_cheapest
all_epsilon_targets_cheapest(s) ==
  LET E == {x \in TransSet(s) : IsEpsilon(x[1])}
  IN [t \in {s.tobj[x[2]].targetstate : x \in E} |->
        MinOf({s.tobj[x[2]].weight : x \in {y \in E : s.tobj[y[2]].targetstate = t}})]

\* State.remove_transitions_to_targets
RECURSIVE RemoveFrom(_, _, _)
RemoveFrom(s, targets, i) ==
  IF i > Len(s.transitions) THEN <<>>
  ELSE LET keep == {id \in s.transitions[i].ids : s.tobj[id].targetstate \notin targets}
       IN (IF keep = {} THEN <<>> ELSE <<[key |-> s.transitions[i].key, ids |-> keep]>>)
          \o RemoveFrom(s, targets, i + 1)

remove_transitions_to_targets(s, targets) ==
  [s EXCEPT !.transitions = RemoveFrom(s, targets, 1)]

----------------------------------------------------------------------------
(* class FST *)

NoLabel == <<>>

\* FST.__init__(label, weight, alphabet)
FST(label, weight, alphabet) ==
  IF label = NoLabel THEN
    [initialstate |-> 1, states |-> {1}, finalstates |-> {}, alphabet |-> alphabet,
     st |-> <<NewState>>]
  ELSE IF label = <<"">> THEN
    [initialstate |-> 1, states |-> {1}, finalstates |-> {1}, alphabet |-> alphabet,
     st |-> <<State(weight)>>]
  ELSE
    [initialstate |-> 1, states |-> {1, 2}, finalstates |-> {2},
     alphabet |-> Range(label),
     st |-> <<add_transition(NewState, 2, label, 0), State(weight)>>]

\* FST.all_transitions(states), as a set of <<state, label, transition id>>
fst_all_transitions(F, states) ==
  UNION {{<<s, x[1], x[2]>> : x \in TransSet(F.st[s])} : s \in states}

\* the transitions of state s as <<target, label, weight>> in the dict's order,
\* the targets renamed by the map q
Moved(F, s, q) ==
  LET a == all_transitions(F.st[s])
  IN [i \in 1..Len(a) |->
        <<q[F.st[s].tobj[a[i][2]].targetstate], a[i][1], F.st[s].tobj[a[i][2]].weight>>]

\* FST.kleene_closure(mode)
kleene_closure(F, mode) ==
  LET q1 == [k \in F.states |-> Rank(F.states, k) + 1]
      n == Cardinality(F.states) + 1
      inv(j) == CHOOSE k \in F.states : q1[k] = j
      star == mode # "plus" \/ F.initialstate \in F.finalstates
      newinit == LET s0 == AddSeq(NewState, Moved(F, F.initialstate, q1))
                 IN IF star THEN [s0 EXCEPT !.finalweight = 0] ELSE s0
      image(k) ==
        LET own == AddSeq(NewState, Moved(F, k, q1))
        IN IF k \in F.finalstates
           THEN [AddSeq(own, Moved(F, F.initialstate, q1))
                   EXCEPT !.finalweight = F.st[k].finalweight]
           ELSE own
  IN [initialstate |-> 1,
      states |-> 1..n,
      finalstates |-> {q1[k] : k \in F.finalstates} \cup (IF star THEN {1} ELSE {}),
      alphabet |-> F.alphabet,
      st |-> [j \in 1..n |-> IF j = 1 THEN newinit ELSE image(inv(j))]]

\* FST.copy_filtered(labelfilter): the copy, its states renamed by q1q2
q1q2_of(F) == [k \in F.states |-> Rank(F.states, k)]

\* the label filters the callers pass, by name: the default lambda x: True and
\* epsilon_removal's "not an all-epsilon label"
KeepAll == "lambda x: True"

NotEpsilon == "lambda lbl: any(len(sublabel) != 0 for sublabel in lbl)"

Passes(labelfilter, lbl) == labelfilter = KeepAll \/ ~IsEpsilon(lbl)

copy_filtered(F, labelfilter) ==
  LET q1q2 == q1q2_of(F)
      n == Cardinality(F.states)
      inv(j) == CHOOSE k \in F.states : q1q2[k] = j
      keep(x) == Passes(labelfilter, x[2])
  IN [initialstate |-> q1q2[F.initialstate],
      states |-> 1..n,
      finalstates |-> {q1q2[k] : k \in F.finalstates},
      alphabet |-> F.alphabet,
      st |-> [j \in 1..n |->
                AddSeq(State(IF inv(j) \in F.finalstates THEN F.st[inv(j)].finalweight ELSE Inf),
                       SelectSeq(Moved(F, inv(j), q1q2), keep))]]

\* the members of the set S in the order of their ranks ord[x] (the order in
\* which a Python set or a dict built from one yields them)
RECURSIVE InOrder(_, _)
InOrder(S, ord) ==
  IF S = {} THEN <<>>
  ELSE LET x == CHOOSE y \in S : \A z \in S : ord[y] <= ord[z]
       IN <<x>> \o InOrder(S \ {x}, ord)

\* heapq.heappop on a heap of <<cost, counter, item>>: the least entry
HeapMin(q) ==
  CHOOSE e \in Range(q) :
    \A f \in Range(q) : e[1] < f[1] \/ (e[1] = f[1] /\ e[2] <= f[2])

HeapRest(q) == LET m == HeapMin(q) IN SelectSeq(q, LAMBDA e : e # m)

\* FST.epsilon_closure(state): the states reached by epsilon transitions with
\* their cheapest cost, as the sequence of <<state, cost>> in the order the
\* dict explored holds them, the start state removed.
RECURSIVE EpsClosureLoop(_, _, _, _, _)
EpsClosureLoop(F, q, cntr, explored, ord) ==
  IF q = <<>> THEN explored
  ELSE
    LET e == HeapMin(q)
        cost == e[1]
        source == e[3]
        rest == HeapRest(q)
    IN IF source \in {x[1] : x \in Range(explored)}
       THEN EpsClosureLoop(F, rest, cntr, explored, ord)
       ELSE
         LET tc == all_epsilon_targets_cheapest(F.st[source])
             ts == InOrder(DOMAIN tc, ord)
             pushed == [i \in 1..Len(ts) |-> <<WAdd(cost, tc[ts[i]]), cntr + i - 1, ts[i]>>]
         IN EpsClosureLoop(F, rest \o pushed, cntr + Len(ts),
                           Append(explored, <<source, cost>>), ord)

epsilon_closure(F, state, ord) ==
  SelectSeq(EpsClosureLoop(F, <<<<0, 0, state>>>>, 1, <<>>, ord), LAMBDA x : x[1] # state)


\* the loop over one state's closure in epsilon_removal: the image m of the
\* state after the closure entries ec[i..] have been handled
RECURSIVE EpsRemovalState(_, _, _, _, _, _)
EpsRemovalState(F, q, state, m, ec, i) ==
  IF i > Len(ec) THEN m
  ELSE
    LET target == ec[i][1]
        cost == ec[i][2]
        moved == Moved(F, target, q)
        nonEps == SelectSeq(moved, LAMBDA x : Passes(NotEpsilon, x[2]))
        added == AddSeq(m, [j \in 1..Len(nonEps) |->
                              <<nonEps[j][1], nonEps[j][2], WAdd(cost, nonEps[j][3])>>])
        m2 == IF target \in F.finalstates
              THEN LET base == IF state \notin F.finalstates THEN 0 ELSE added.finalweight
                   IN [added EXCEPT
                         !.finalweight = WAdd(base, WAdd(cost, F.st[target].finalweight))]
              ELSE added
    IN EpsRemovalState(F, q, state, m2, ec, i + 1)

\* FST.epsilon_removal; ord is the iteration order of the sets of states
epsilon_removal(F, ord) ==
  LET eclosures == [s \in F.states |-> epsilon_closure(F, s, ord)]
  IN IF \A s \in F.states : Len(eclosures[s]) = 0 THEN F
     ELSE
       LET newfst == copy_filtered(F, NotEpsilon)
           mapping == q1q2_of(F)
           inv(j) == CHOOSE k \in F.states : mapping[k] = j
           finalIn(s) == \E i \in 1..Len(eclosures[s]) : eclosures[s][i][1] \in F.finalstates
       IN [newfst EXCEPT
             !.finalstates = @ \cup {mapping[s] : s \in {x \in F.states : finalIn(x)}},
             !.st = [j \in DOMAIN newfst.st |->
                       EpsRemovalState(F, mapping, inv(j), newfst.st[j], eclosures[inv(j)], 1)]]

\* all the transitions of the FST as a sequence of <<state, label, transition
\* id>>: state by state, each state's dict in its order
RECURSIVE AllSeqFrom(_, _)
AllSeqFrom(F, ss) ==
  IF ss = <<>> THEN <<>>
  ELSE LET a == all_transitions(F.st[ss[1]])
       IN [i \in 1..Len(a) |-> <<ss[1], a[i][1], a[i][2]>>] \o AllSeqFrom(F, Tail(ss))

AllSeq(F) == AllSeqFrom(F, SortedSeq(F.states))

\* FST.reverse
reverse(F) ==
  LET mapping == [k \in F.states |-> Rank(F.states, k) + 1]
      n == Cardinality(F.states) + 1
      inv(j) == CHOOSE k \in F.states : mapping[k] = j
      all == AllSeq(F)
      tr(x) == F.st[x[1]].tobj[x[3]]
      initFinal == F.initialstate \in F.finalstates
      into(k) == LET a == SelectSeq(all, LAMBDA x : tr(x).targetstate = k)
                 IN [i \in 1..Len(a) |-> <<mapping[a[i][1]], a[i][2], tr(a[i]).weight>>]
      intoFinal == LET a == SelectSeq(all, LAMBDA x : tr(x).targetstate \in F.finalstates)
                   IN [i \in 1..Len(a) |->
                         <<mapping[a[i][1]], a[i][2],
                           WAdd(tr(a[i]).weight, F.st[tr(a[i]).targetstate].finalweight)>>]
  IN [initialstate |-> 1,
      states |-> 1..n,
      finalstates |-> {mapping[F.initialstate]} \cup (IF initFinal THEN {1} ELSE {}),
      alphabet |-> F.alphabet,
      st |-> [j \in 1..n |->
                IF j = 1
                THEN AddSeq(State(IF initFinal THEN F.st[F.initialstate].finalweight ELSE Inf),
                            intoFinal)
                ELSE AddSeq(State(IF inv(j) = F.initialstate THEN 0 ELSE Inf), into(inv(j)))]]

\* position of x in the sequence q, 0 when absent
PosIn(q, x) ==
  LET P == {i \in 1..Len(q) : q[i] = x} IN IF P = {} THEN 0 ELSE CHOOSE i \in P : TRUE

\* the labels of the states of a macro-state, in a fixed order (the order of
\* the dict collectlabels)
RECURSIVE CollectKeys(_, _, _)
CollectKeys(F, ss, acc) ==
  IF ss = <<>> THEN acc
  ELSE LET ks == [i \in 1..Len(F.st[ss[1]].transitions) |-> F.st[ss[1]].transitions[i].key]
           new == SelectSeq(ks, LAMBDA k : k \notin Range(acc))
       IN CollectKeys(F, Tail(ss), acc \o new)

\* residuals = {s:r for s, r in currentQ}: a state that is in the macro-state
\* with two residuals keeps the one the frozenset yields last; pick says which
DetResiduals(currentQ, pick) ==
  [s \in {x[1] : x \in currentQ} |->
     LET rs == {x[2] : x \in {y \in currentQ : y[1] = s}}
     IN IF pick = "least" THEN MinOf(rs) ELSE CHOOSE r \in rs : \A r2 \in rs : r2 <= r]

\* the body of determinize's loop over collectlabels, for the labels ls[i..];
\* D is [Q, statesets, st, finalstates], the state of the construction
RECURSIVE DetLabels(_, _, _, _, _, _)
DetLabels(F, D, currentQ, residuals, ls, i) ==
  IF i > Len(ls) THEN D
  ELSE
    LET label == ls[i]
        tset == UNION {{<<s, id>> : id \in TransGet(F.st[s], label)} :
                         s \in {x[1] : x \in currentQ}}
        t(e) == F.st[e[1]].tobj[e[2]]
        wprime == MinOf({WAdd(t(e).weight, residuals[e[1]]) : e \in tset})
        debt(e) == WSub(WAdd(t(e).weight, residuals[e[1]]), wprime)
        newQ == {<<t(e).targetstate, debt(e)>> : e \in tset}
        known == PosIn(D.statesets, newQ)
        newstate == IF known = 0 THEN Len(D.statesets) + 1 ELSE known
        D1 == IF known = 0
              THEN [D EXCEPT !.Q = Append(@, newQ),
                             !.statesets = Append(@, newQ),
                             !.st = Append(@, NewState)]
              ELSE D
        cur == PosIn(D.statesets, currentQ)
        D2 == [D1 EXCEPT !.st[cur] = add_transition(@, newstate, label, wprime)]
        fin == {e \in tset : t(e).targetstate \in F.finalstates}
        D3 == IF fin # {}
              THEN [D2 EXCEPT
                      !.finalstates = @ \cup {newstate},
                      !.st[newstate].finalweight =
                         MinOf({WAdd(F.st[t(e).targetstate].finalweight, debt(e)) : e \in fin})]
              ELSE D2
    IN The({DetLabels(F, next, currentQ, residuals, ls, i + 1) : next \in {D3}})

\* determinize's loop "while Q"; it is cut off, ok = FALSE, when more than
\* fuel macro-states have been made (the source's loop need not end)
RECURSIVE DetLoop(_, _, _, _)
DetLoop(F, D, pick, fuel) ==
  IF D.Q = <<>> THEN [D EXCEPT !.ok = TRUE]
  ELSE IF Len(D.statesets) > fuel THEN [D EXCEPT !.ok = FALSE]
  ELSE
    LET currentQ == Last(D.Q)
        D0 == [D EXCEPT !.Q = SubSeq(@, 1, Len(@) - 1)]
    IN The({DetLoop(F, next, pick, fuel) :
              next \in {The({DetLabels(F, D0, currentQ, residuals, ls, 1) :
                               residuals \in {DetResiduals(currentQ, pick)},
                               ls \in {CollectKeys(F, SortedSeq({x[1] : x \in currentQ}), <<>>)}})}})

\* FST.determinize() with its default arguments (staterep the pair itself,
\* oplus = min).  The result is [ok, fst]: fst is the new FST when the loop ended.
determinize(F, pick, fuel) ==
  LET firststate == {<<F.initialstate, 0>>}
      initFinal == F.initialstate \in F.finalstates
      D0 == [Q |-> <<firststate>>, statesets |-> <<firststate>>,
             st |-> <<State(IF initFinal THEN F.st[F.initialstate].finalweight ELSE Inf)>>,
             finalstates |-> IF initFinal THEN {1} ELSE {},
             ok |-> TRUE]
  IN The({[ok |-> D.ok,
           fst |-> [initialstate |-> 1,
                    states |-> 1..Len(D.st),
                    finalstates |-> D.finalstates,
                    alphabet |-> F.alphabet,
                    st |-> D.st]] : D \in {DetLoop(F, D0, pick, fuel)}})

\* FST.minimize: reverse, determinize, reverse, determinize; picks are the two
\* determinizations' orders
minimize(F, picks, fuel) ==
  The({IF ~d1.ok THEN d1
       ELSE The({determinize(r, picks[2], fuel) : r \in {reverse(d1.fst)}}) :
         d1 \in {The({determinize(r, picks[1], fuel) : r \in {reverse(F)}})}})

\* FST.dijkstra(state, State.all_targets_cheapest): the cost of the cheapest
\* path from state to a final state, that state's final weight included.  The
\* heap holds <<cost, counter, state>>; the state 0 is the None that marks the
\* exit from a final state.  ord is the order of the dicts of targets.
RECURSIVE DijkstraLoop(_, _, _, _, _)
DijkstraLoop(F, q, cntr, explored, ord) ==
  IF q = <<>> THEN Inf
  ELSE
    LET e == HeapMin(q)
        w == e[1]
        s == e[3]
        rest == HeapRest(q)
    IN IF s = 0 THEN w
       ELSE
         LET explored2 == explored \cup {s}
             exit == IF s \in F.finalstates
                     THEN <<<<WAdd(w, F.st[s].finalweight), cntr, 0>>>>
                     ELSE <<>>
             c2 == cntr + Len(exit)
             tc == all_targets_cheapest(F.st[s])
             ts == InOrder({t \in DOMAIN tc : t \notin explored2}, ord)
             pushed == [i \in 1..Len(ts) |-> <<WAdd(tc[ts[i]], w), c2 + i - 1, ts[i]>>]
         IN DijkstraLoop(F, rest \o exit \o pushed, c2 + Len(ts), explored2, ord)

dijkstra(F, state, ord) == DijkstraLoop(F, <<<<0, 0, state>>>>, 1, {state}, ord)

\* FST.dijkstra_all
dijkstra_all(F, ord) == [s \in F.states |-> dijkstra(F, s, ord)]

\* FST.scc: Tarjan's algorithm.  T holds index, the stack S, indices and
\* lowlink (-1 for a state not in the dict), onstack and sccs.
RECURSIVE strongconnect(_, _, _, _)
RECURSIVE SccTargets(_, _, _, _, _)
SccTargets(F, state, targets, T, ord) ==
  IF targets = <<>> THEN T
  ELSE
    LET target == targets[1]
    IN IF T.indices[target] = -1
       THEN LET U == strongconnect(F, target, T, ord)
            IN SccTargets(F, state, Tail(targets),
                          [U EXCEPT !.lowlink[state] = WMin(@, U.lowlink[target])], ord)
       ELSE IF target \in T.onstack
       THEN SccTargets(F, state, Tail(targets),
                       [T EXCEPT !.lowlink[state] = WMin(@, T.indices[target])], ord)
       ELSE SccTargets(F, state, Tail(targets), T, ord)

strongconnect(F, state, T, ord) ==
  LET T1 == [T EXCEPT !.indices[state] = T.index,
                      !.lowlink[state] = T.index,
                      !.index = @ + 1,
                      !.S = Append(@, state),
                      !.onstack = @ \cup {state}]
      T2 == SccTargets(F, state, InOrder(all_targets(F.st[state]), ord), T1, ord)
  IN IF T2.lowlink[state] = T2.indices[state]
     THEN LET p == CHOOSE i \in 1..Len(T2.S) : T2.S[i] = state
              currscc == {T2.S[i] : i \in p..Len(T2.S)}
          IN [T2 EXCEPT !.S = SubSeq(@, 1, p - 1),
                        !.onstack = @ \ currscc,
                        !.sccs = @ \cup {currscc}]
     ELSE T2

RECURSIVE SccStates(_, _, _, _)
SccStates(F, ss, T, ord) ==
  IF ss = <<>> THEN T
  ELSE IF T.indices[ss[1]] = -1
  THEN SccStates(F, Tail(ss), strongconnect(F, ss[1], T, ord), ord)
  ELSE SccStates(F, Tail(ss), T, ord)

\* every state a component of its own
scc_single(F, ord) == {{s} : s \in F.states}

scc(F, ord) ==
  SccStates(F, InOrder(F.states, ord),
            [index |-> 0, S |-> <<>>, indices |-> [s \in F.states |-> -1],
             lowlink |-> [s \in F.states |-> -1], onstack |-> {}, sccs |-> {}],
            ord).sccs

\* t.weight += delta[t] for the transitions a of one state, one after the other
RECURSIVE AddWeights(_, _, _)
AddWeights(s, a, delta) ==
  IF a = <<>> THEN s
  ELSE AddWeights([s EXCEPT !.tobj[a[1][2]].weight = WAdd(@, delta[s.tobj[a[1][2]].targetstate])],
                  Tail(a), delta)

\* FST.push_weights: the FST itself, its weights changed in place
push_weights(F, ord) ==
  LET potentials == dijkstra_all(F, ord)
      pushed == [k \in DOMAIN F.st |->
                   IF k \notin F.states THEN F.st[k]
                   ELSE LET s == AddWeights(F.st[k], all_transitions(F.st[k]),
                                            [t \in F.states |-> WSub(potentials[t], potentials[k])])
                        IN IF k \in F.finalstates
                           THEN [s EXCEPT !.finalweight = WSub(@, potentials[k])]
                           ELSE s]
      residualweight == potentials[F.initialstate]
      mainscc == CHOOSE c \in scc(F, ord) : F.initialstate \in c
      exits == [k \in DOMAIN F.st |->
                  IF k \notin mainscc THEN pushed[k]
                  ELSE LET s == AddWeights(pushed[k], all_transitions(pushed[k]),
                                           [t \in F.states |->
                                              IF t \notin mainscc THEN residualweight ELSE 0])
                       IN IF k \in F.finalstates
                          THEN [s EXCEPT !.finalweight = WAdd(@, residualweight)]
                          ELSE s]
  IN [F EXCEPT !.st = IF residualweight # 0 THEN exits ELSE pushed]

----------------------------------------------------------------------------
(* The lazy indices, harmonize_alphabet and the binary operators.  A binary *)
(* operator returns [value, self, other]: the new FST and the two operand   *)
(* objects as the call leaves them.                                        *)

\* State.transitionsout / State.transitionsin: the index as it is read, built
\* from the dict on the first read and kept from then on.  An index is the
\* sequence of <<label, transition id>> in the dict's order at that time; the
\* key of an entry is label[-1] (out) or label[0] (in).
Index(s, cache) == IF cache.built THEN cache.idx ELSE all_transitions(s)

transitionsout(s) == Index(s, s.tout)

transitionsin(s) == Index(s, s.tin)

\* the keys of an index in the order of their first entry
RECURSIVE IndexKeys(_, _, _)
IndexKeys(idx, outgoing, acc) ==
  IF idx = <<>> THEN acc
  ELSE LET k == IF outgoing THEN Last(idx[1][1]) ELSE idx[1][1][1]
       IN IndexKeys(Tail(idx), outgoing,
                    IF k \in Range(acc) THEN acc ELSE Append(acc, k))

\* index.get(sym, ())
OutGet(s, sym) == SelectSeq(transitionsout(s), LAMBDA e : Last(e[1]) = sym)

InGet(s, sym) == SelectSeq(transitionsin(s), LAMBDA e : e[1][1] = sym)

\* the state with its index read: built if it was not
ReadOut(s) == [s EXCEPT !.tout = [built |-> TRUE, idx |-> transitionsout(s)]]

ReadIn(s) == [s EXCEPT !.tin = [built |-> TRUE, idx |-> transitionsin(s)]]

\* the concatenation of the sequences f[1], ..., f[n]
RECURSIVE Flatten(_)
Flatten(f) == IF f = <<>> THEN <<>> ELSE f[1] \o Flatten(Tail(f))

\* the transitions of F whose label holds '.', copied once for each symbol of
\* syms with the '.'s replaced by it, added to their source states
Expand(F, syms) ==
  LET symseq == SetToSeq(syms)
      adds(k) ==
        LET a == SelectSeq(all_transitions(F.st[k]), LAMBDA x : "." \in Range(x[1]))
        IN Flatten([i \in 1..Len(a) |->
                      [j \in 1..Len(symseq) |->
                         <<F.st[k].tobj[a[i][2]].targetstate,
                           [n \in 1..Len(a[i][1]) |->
                              IF a[i][1][n] # "." THEN a[i][1][n] ELSE symseq[j]],
                           F.st[k].tobj[a[i][2]].weight>>]])
  IN [F EXCEPT !.st = [k \in DOMAIN F.st |->
                         IF k \in F.states THEN AddSeq(F.st[k], adds(k)) ELSE F.st[k]]]

NeedsExpand(A, B) ==
  "." \in A.alphabet /\ (A.alphabet \ {"."}) # (B.alphabet \ {"."})

\* harmonize_alphabet, the part before the call of func: self as it is left,
\* the FST that func gets as other (other itself, or its expanded copy), and
\* the alphabet the value gets.  same: self and other are one object.
harmonize_alphabet(self, other, same) ==
  LET self1 == IF NeedsExpand(self, other)
               THEN Expand(self, (other.alphabet \ self.alphabet) \ {".", ""})
               ELSE self
      other0 == IF same THEN self1 ELSE other
      copied == NeedsExpand(other0, self1)
      other1 == IF copied
                THEN Expand(copy_filtered(other0, KeepAll),
                            (self1.alphabet \ other0.alphabet) \ {".", ""})
                ELSE other0
  IN [self |-> self1, other |-> other1, copied |-> copied,
      newalphabet |-> self1.alphabet \cup other1.alphabet]

\* the loop body shared by compose and product: for each edge <<target key,
\* label, weight>> in turn, a new State for a target key not yet in S (put on
\* Q and in S), and the transition from the current state to it.  The edges
\* are taken in order, the first half and then the second.
RECURSIVE AddEdges(_, _, _)
AddEdges(C, cur, edges) ==
  IF edges = <<>> THEN C
  ELSE IF Len(edges) = 1 THEN
    LET e == edges[1]
        known == PosIn(C.S, e[1]) # 0
        C1 == IF known THEN C
              ELSE [C EXCEPT !.Q = Append(@, e[1]), !.S = Append(@, e[1]),
                             !.st = Append(@, NewState)]
    IN [C1 EXCEPT !.st[cur] = add_transition(@, PosIn(C1.S, e[1]), e[2], e[3])]
  ELSE
    The({The({AddEdges(half, cur, rest) :
                half \in {AddEdges(C, cur, SubSeq(edges, 1, Len(edges) \div 2))}}) :
           rest \in {SubSeq(edges, Len(edges) \div 2 + 1, Len(edges))}})

_mergetuples(x, y) ==
  IF Len(x) = 1 THEN x \o Tail(y)
  ELSE IF Len(y) = 1 THEN SubSeq(x, 1, Len(x) - 1) \o y
  ELSE SubSeq(x, 1, Len(x) - 1) \o Tail(y)

\* every step from every mode
EpsilonFilter_open(mode, step) == TRUE

\* the steps on the symbol '' that a mode allows: the match of '' with '' in
\* mode 0 only, A's step while B waits not in mode 2, B's step while A waits
\* not in mode 1
EpsilonFilter(mode, step) ==
  CASE step = "match" -> mode = 0
    [] step = "B waits" -> mode # 2
    [] step = "A waits" -> mode # 1

\* FST.compose, one round of the while loop; a key of S is <<A, B, mode>>
ComposeStep(self, other, C) ==
    LET key == Last(C.Q)
        A == self.st[key[1]]
        B == other.st[key[2]]
        mode == key[3]
        cur == PosIn(C.S, key)
        C0 == [C EXCEPT !.Q = SubSeq(@, 1, Len(@) - 1)]
        C1 == IF key[1] \in self.finalstates /\ key[2] \in other.finalstates
              THEN [C0 EXCEPT !.finalstates = @ \cup {cur},
                              !.st[cur].finalweight = WAdd(A.finalweight, B.finalweight)]
              ELSE C0
        syms == SelectSeq(IndexKeys(transitionsout(A), TRUE, <<>>),
                          LAMBDA m : EpsilonFilter(mode, "match") \/ m # "")
        match == Flatten([i \in 1..Len(syms) |->
                   LET o == OutGet(A, syms[i])
                       n == InGet(B, syms[i])
                   IN Flatten([j \in 1..Len(o) |->
                        [k \in 1..Len(n) |->
                           <<<<A.tobj[o[j][2]].targetstate, B.tobj[n[k][2]].targetstate, 0>>,
                             _mergetuples(A.tobj[o[j][2]].label, B.tobj[n[k][2]].label),
                             WAdd(A.tobj[o[j][2]].weight, B.tobj[n[k][2]].weight)>>]])])
        oe == IF EpsilonFilter(mode, "B waits") THEN OutGet(A, "") ELSE <<>>
        bwaits == [j \in 1..Len(oe) |->
                     <<<<A.tobj[oe[j][2]].targetstate, key[2], 1>>,
                       A.tobj[oe[j][2]].label, A.tobj[oe[j][2]].weight>>]
        ie == IF EpsilonFilter(mode, "A waits") THEN InGet(B, "") ELSE <<>>
        awaits == [j \in 1..Len(ie) |->
                     <<<<key[1], B.tobj[ie[j][2]].targetstate, 2>>,
                       B.tobj[ie[j][2]].label, B.tobj[ie[j][2]].weight>>]
    IN AddEdges(C1, cur, match \o bwaits \o awaits)

\* at most n rounds of the loop, the first half of them and then the rest
RECURSIVE ComposeRun(_, _, _, _)
ComposeRun(self, other, C, n) ==
  IF C.Q = <<>> \/ n = 0 THEN C
  ELSE IF n = 1 THEN ComposeStep(self, other, C)
  ELSE The({ComposeRun(self, other, half, n - n \div 2) :
              half \in {ComposeRun(self, other, C, n \div 2)}})

\* FST.compose, the while loop: a key is put on Q once, when it is put in S,
\* so the loop ends within as many rounds as there are keys
ComposeLoop(self, other, C) ==
  ComposeRun(self, other, C, 3 * Len(self.st) * Len(other.st))

\* FST.compose without its decorator; the states of the operands that the
\* loop has come to have had their indices read
compose_body(self, other, same) ==
  LET first == <<self.initialstate, other.initialstate, 0>>
      readOut(F, ks) == [F EXCEPT !.st = [k \in DOMAIN F.st |->
                           IF k \in ks THEN ReadOut(F.st[k]) ELSE F.st[k]]]
      readIn(F, ks) == [F EXCEPT !.st = [k \in DOMAIN F.st |->
                          IF k \in ks THEN ReadIn(F.st[k]) ELSE F.st[k]]]
  IN The({The({[value |-> [initialstate |-> 1, states |-> 1..Len(C.st),
                            finalstates |-> C.finalstates, alphabet |-> {}, st |-> C.st],
                self |-> IF same THEN readIn(selfR, {k[2] : k \in Range(C.S)}) ELSE selfR,
                other |-> readIn(IF same THEN selfR ELSE other, {k[2] : k \in Range(C.S)})] :
                  selfR \in {readOut(self, {k[1] : k \in Range(C.S)})}}) :
            C \in {ComposeLoop(self, other,
                               [Q |-> <<first>>, S |-> <<first>>, st |-> <<NewState>>,
                                finalstates |-> {}])}})

\* a decorated operator's result: the value with the harmonized alphabet, and
\* other left alone when func worked on its copy
Harmonized(h, r, other, same) ==
  [value |-> [r.value EXCEPT !.alphabet = h.newalphabet],
   self |-> r.self,
   other |-> IF h.copied THEN other ELSE r.other]

\* FST.compose
compose(self, other, same) ==
  The({The({Harmonized(h, r, other, same) :
              r \in {compose_body(h.self, h.other, same /\ ~h.copied)}}) :
         h \in {harmonize_alphabet(self, other, same)}})

\* FST.copy_mod(modlabel) with the default modweight; modlabel by name
AppendEps == "lambda l, _: l + ('',)"

PrependEps == "lambda l, _: ('',) + l"

ModLabel(modlabel, l) ==
  IF modlabel = AppendEps THEN l \o <<"">>
  ELSE IF modlabel = PrependEps THEN <<"">> \o l
  ELSE l

copy_mod(F, modlabel) ==
  LET q1q2 == q1q2_of(F)
      n == Cardinality(F.states)
      inv(j) == CHOOSE k \in F.states : q1q2[k] = j
      moved(k) == LET a == Moved(F, k, q1q2)
                  IN [i \in 1..Len(a) |-> <<a[i][1], ModLabel(modlabel, a[i][2]), a[i][3]>>]
  IN [initialstate |-> q1q2[F.initialstate],
      states |-> 1..n,
      finalstates |-> {q1q2[k] : k \in F.finalstates},
      alphabet |-> F.alphabet,
      st |-> [j \in 1..n |->
                AddSeq(State(IF inv(j) \in F.finalstates THEN F.st[inv(j)].finalweight ELSE Inf),
                       moved(inv(j)))]]

\* a binary operator that reads its operands and leaves them as they are
Untouched(value, self, other) == [value |-> value, self |-> self, other |-> other]

\* FST.concatenate without its decorator
concatenate_body(self, other) ==
  LET ocopy == copy_filtered(other, KeepAll)
      n == Cardinality(self.states)
      m == Cardinality(ocopy.states)
      q1 == [k \in self.states |-> Rank(self.states, k)]
      q2 == [k \in ocopy.states |-> n + k]
      inv(j) == CHOOSE k \in self.states : q1[k] = j
      oinit == ocopy.initialstate
      ofinal == oinit \in ocopy.finalstates
      image1(k) ==
        LET own == AddSeq(NewState, Moved(self, k, q1))
            first == Moved(ocopy, oinit, q2)
            s == IF k \in self.finalstates
                 THEN AddSeq(own, [i \in 1..Len(first) |->
                                     <<first[i][1], first[i][2],
                                       WAdd(first[i][3], self.st[k].finalweight)>>])
                 ELSE own
        IN IF ofinal /\ k \in self.finalstates
           THEN [s EXCEPT !.finalweight = WAdd(self.st[k].finalweight, ocopy.st[oinit].finalweight)]
           ELSE s
      image2(k) ==
        LET s == AddSeq(NewState, Moved(ocopy, k, q2))
        IN IF k \in ocopy.finalstates
           THEN [s EXCEPT !.finalweight = ocopy.st[k].finalweight]
           ELSE s
  IN Untouched([initialstate |-> q1[self.initialstate],
                states |-> 1..(n + m),
                finalstates |-> {q2[f] : f \in ocopy.finalstates} \cup
                                (IF ofinal THEN {q1[f] : f \in self.finalstates} ELSE {}),
                alphabet |-> {},
                st |-> [j \in 1..(n + m) |-> IF j <= n THEN image1(inv(j)) ELSE image2(j - n)]],
               self, other)

\* FST.concatenate
concatenate(self, other, same) ==
  The({Harmonized(h, concatenate_body(h.self, h.other), other, same) :
         h \in {harmonize_alphabet(self, other, same)}})

\* FST.union without its decorator
union_body(self, other) ==
  LET n == Cardinality(self.states)
      m == Cardinality(other.states)
      q1 == [k \in self.states |-> 1 + Rank(self.states, k)]
      q2 == [k \in other.states |-> 1 + n + Rank(other.states, k)]
      inv1(j) == CHOOSE k \in self.states : q1[k] = j
      inv2(j) == CHOOSE k \in other.states : q2[k] = j
      initFinal == self.initialstate \in self.finalstates \/
                   other.initialstate \in other.finalstates
      init0 == AddSeq(AddSeq(NewState, Moved(self, self.initialstate, q1)),
                      Moved(other, other.initialstate, q2))
      init == IF initFinal
              THEN [init0 EXCEPT !.finalweight =
                      WMin(self.st[self.initialstate].finalweight,
                           other.st[other.initialstate].finalweight)]
              ELSE init0
      image(F, q, k) ==
        LET s == AddSeq(NewState, Moved(F, k, q))
        IN IF k \in F.finalstates THEN [s EXCEPT !.finalweight = F.st[k].finalweight] ELSE s
  IN Untouched([initialstate |-> 1,
                states |-> 1..(1 + n + m),
                finalstates |-> {q1[s] : s \in self.finalstates} \cup
                                {q2[s] : s \in other.finalstates} \cup
                                (IF initFinal THEN {1} ELSE {}),
                alphabet |-> {},
                st |-> [j \in 1..(1 + n + m) |->
                          IF j = 1 THEN init
                          ELSE IF j <= 1 + n THEN image(self, q1, inv1(j))
                          ELSE image(other, q2, inv2(j))]],
               self, other)

\* FST.union
union(self, other, same) ==
  The({Harmonized(h, union_body(h.self, h.other), other, same) :
         h \in {harmonize_alphabet(self, other, same)}})

\* FST.cross_product: the composition of two copies, the operands only read
cross_product(self, other, same) ==
  The({Harmonized(h,
                  Untouched(compose(copy_mod(h.self, AppendEps),
                                    copy_mod(h.other, PrependEps), FALSE).value,
                            h.self, h.other),
                  other, same) :
         h \in {harmonize_alphabet(self, other, same)}})

\* a state of an operand of product; 0 is the dead state
StateAt(F, k) == IF k = 0 THEN State(Inf) ELSE F.st[k]

Keys(s) == [i \in 1..Len(s.transitions) |-> s.transitions[i].key]

\* the arguments intersection and difference give to product
ProductFinal(func, f1, f2) == IF func = "intersection" THEN f1 /\ f2 ELSE f1 /\ ~f2

ProductOplus(func, x, y) == IF func = "intersection" THEN WAdd(x, y) ELSE x

ProductFollow(func, x, y) ==
  IF func = "intersection" THEN SelectSeq(x, LAMBDA l : l \in Range(y))
  ELSE x \o SelectSeq(y, LAMBDA l : l \notin Range(x))

\* FST.product, one round of the while loop; a key of S is <<t1s, t2s, 0>>
ProductStep(self, other, func, C) ==
    LET key == Last(C.Q)
        t1s == StateAt(self, key[1])
        t2s == StateAt(other, key[2])
        cur == PosIn(C.S, key)
        C0 == [C EXCEPT !.Q = SubSeq(@, 1, Len(@) - 1)]
        C1 == IF ProductFinal(func, key[1] \in self.finalstates, key[2] \in other.finalstates)
              THEN [C0 EXCEPT !.finalstates = @ \cup {cur},
                              !.st[cur].finalweight =
                                 ProductOplus(func, t1s.finalweight, t2s.finalweight)]
              ELSE C0
        lbls == ProductFollow(func, Keys(t1s), Keys(t2s))
        \* the transitions under a label as <<target, weight>>, the dead one when none
        get(s, lbl) == IF KeyPos(s, lbl) = 0 THEN <<<<0, Inf>>>>
                       ELSE LET ids == SortedSeq(TransGet(s, lbl))
                            IN [i \in 1..Len(ids) |->
                                  <<s.tobj[ids[i]].targetstate, s.tobj[ids[i]].weight>>]
        edges == Flatten([i \in 1..Len(lbls) |->
                   LET o == get(t1s, lbls[i])
                       n == get(t2s, lbls[i])
                   IN Flatten([j \in 1..Len(o) |->
                        [k \in 1..Len(n) |->
                           <<<<o[j][1], n[k][1], 0>>, lbls[i],
                             ProductOplus(func, o[j][2], n[k][2])>>]])])
    IN AddEdges(C1, cur, edges)

\* at most n rounds of the loop, the first half of them and then the rest
RECURSIVE ProductRun(_, _, _, _, _)
ProductRun(self, other, func, C, n) ==
  IF C.Q = <<>> \/ n = 0 THEN C
  ELSE IF n = 1 THEN ProductStep(self, other, func, C)
  ELSE The({ProductRun(self, other, func, half, n - n \div 2) :
              half \in {ProductRun(self, other, func, C, n \div 2)}})

\* FST.product, the while loop: a key is put on Q once, when it is put in S,
\* so the loop ends within as many rounds as there are keys
ProductLoop(self, other, func, C) ==
  ProductRun(self, other, func, C, (Len(self.st) + 1) * (Len(other.st) + 1))

\* FST.product(other, finalf, oplus, pathfollow)
product(self, other, func) ==
  LET first == <<self.initialstate, other.initialstate, 0>>
  IN The({Untouched([initialstate |-> 1, states |-> 1..Len(C.st),
                     finalstates |-> C.finalstates, alphabet |-> {}, st |-> C.st],
                    self, other) :
            C \in {ProductLoop(self, other, func,
                               [Q |-> <<first>>, S |-> <<first>>, st |-> <<NewState>>,
                                finalstates |-> {}])}})

\* FST.intersection
intersection(self, other, same) ==
  The({Harmonized(h, product(h.self, h.other, "intersection"), other, same) :
         h \in {harmonize_alphabet(self, other, same)}})

\* FST.difference
difference(self, other, same) ==
  The({Harmonized(h, product(h.self, h.other, "difference"), other, same) :
         h \in {harmonize_alphabet(self, other, same)}})

\* FST.optional: self, changed in place unless its initial state is final
optional(F) ==
  IF F.initialstate \in F.finalstates THEN F
  ELSE
    LET new == Len(F.st) + 1
        id == [k \in DOMAIN F.st |-> k]
        newinitial == [AddSeq(NewState, Moved(F, F.initialstate, id)) EXCEPT !.finalweight = 0]
    IN [F EXCEPT !.initialstate = new,
                 !.states = @ \cup {new},
                 !.finalstates = @ \cup {new},
                 !.st = Append(@, newinitial)]

\* the states that the states of S have transitions to, S included: the loop
\* of accessible
RECURSIVE Explore(_, _)
Explore(F, S) ==
  LET T == S \cup UNION {all_targets(F.st[s]) : s \in S}
  IN IF T = S THEN S ELSE The({Explore(F, next) : next \in {T}})

\* accessible without "self.finalstates &= self.states"
accessible_keeping_finals(F) ==
  The({[F EXCEPT !.states = explored] : explored \in {Explore(F, {F.initialstate})}})

\* FST.accessible: self, changed in place
accessible(F) ==
  The({[F EXCEPT !.states = explored, !.finalstates = @ \cap explored] :
         explored \in {Explore(F, {F.initialstate})}})

\* the states from which a state of S is reached along inverse, S included
RECURSIVE Back(_, _)
Back(inverse, S) ==
  LET T == S \cup UNION {inverse[s] : s \in S}
  IN IF T = S THEN S ELSE The({Back(inverse, next) : next \in {T}})

\* FST.coaccessible: self, changed in place
coaccessible(F) ==
  LET explored == Explore(F, {F.initialstate})
      inverse == [t \in F.states |-> {s \in explored : t \in all_targets(F.st[s])}]
  IN The({[F EXCEPT !.st = [k \in DOMAIN F.st |->
                              IF k \in F.states
                              THEN remove_transitions_to_targets(F.st[k], F.states \ co)
                              ELSE F.st[k]],
                    !.states = @ \cap co,
                    !.finalstates = @ \cap (F.states \cap co)] :
            co \in {Back(inverse, F.finalstates) \cup {F.initialstate}}})

\* trim without coaccessible
trim_accessible_only(F) == accessible(F)

\* FST.trim
trim(F) == The({coaccessible(G) : G \in {accessible(F)}})

\* functools.reduce(lambda x, y: x.concatenate(y), [lang]*k): a TypeError for
\* k <= 0 (ok = FALSE: the list is empty), lang itself for k = 1 (alias = TRUE), a new FST otherwise
RECURSIVE ReduceFrom(_, _, _, _)
ReduceFrom(x, lang, k, first) ==
  IF k = 0 THEN x
  ELSE The({ReduceFrom(next, lang, k - 1, FALSE) :
              next \in {concatenate(x, lang, first).value}})

reduce(lang, k) ==
  IF k <= 0 THEN [ok |-> FALSE, alias |-> FALSE, value |-> lang]
  ELSE [ok |-> TRUE, alias |-> k = 1, value |-> ReduceFrom(lang, lang, k - 1, TRUE)]

\* str(n): the decimal digits of n
RECURSIVE Str(_)
Str(n) == IF n < 10 THEN <<n>> ELSE Append(Str(n \div 10), n % 10)

\* rng[0] > rng[1], the comparison of two strings of digits
RECURSIVE StrGreater(_, _)
StrGreater(x, y) ==
  IF x = <<>> THEN FALSE
  ELSE IF y = <<>> THEN TRUE
  ELSE IF x[1] # y[1] THEN x[1] > y[1]
  ELSE StrGreater(Tail(x), Tail(y))

\* The RANGE branch of regexparse.compile for the value "m", ",n", "m," or
\* "m,n" and the FST lang popped from the stack: the error raised, if any, and
\* the FST put on the stack.
RangeExactly(lang, m) ==
  The({IF r.ok THEN [raised |-> "", value |-> r.value, lang |-> lang]
       ELSE [raised |-> "TypeError", value |-> lang, lang |-> lang] : r \in {reduce(lang, m)}})

RangeAtMost(lang, n) ==
  The({The({IF r.ok THEN [raised |-> "", value |-> r.value, lang |-> lang2]
            ELSE [raised |-> "TypeError", value |-> lang2, lang |-> lang2] :
              r \in {reduce(lang2, n)}}) :
         lang2 \in {optional(lang)}})

RangeAtLeast(lang, m) ==
  The({IF r.ok
       THEN [raised |-> "", lang |-> lang,
             value |-> concatenate(r.value, kleene_closure(lang, "star"), FALSE).value]
       ELSE [raised |-> "TypeError", value |-> lang, lang |-> lang] : r \in {reduce(lang, m)}})

\* lang1 is lang itself when m = 1, and lang.optional() then changes it too
RangeBetween(lang, m, n) ==
  IF StrGreater(Str(m), Str(n)) THEN [raised |-> "SyntaxError", value |-> lang, lang |-> lang]
  ELSE
    The({IF ~r1.ok THEN [raised |-> "TypeError", value |-> lang, lang |-> lang]
         ELSE The({The({IF ~r2.ok THEN [raised |-> "TypeError", value |-> opt, lang |-> opt]
                        ELSE [raised |-> "", lang |-> opt,
                              value |-> concatenate(IF r1.alias THEN opt ELSE r1.value,
                                                    r2.value, r1.alias /\ r2.alias).value] :
                          r2 \in {reduce(opt, n - m)}}) :
                     opt \in {optional(lang)}}) :
           r1 \in {reduce(lang, m)}})

\* lbl[dim] for dim = -1: the last component, a str.  A str is kept as the
\* sequence of its characters (the symbols here have one character), so that
\* label[0], label[-1], len and iteration read it as Python does.
LastComponent(lbl) == IF Last(lbl) = "" THEN <<>> ELSE <<Last(lbl)>>

\* {lbl[dim]:tr for lbl, tr in s.transitions.items()}: a key that comes again
\* keeps its place in the dict and takes the later set of transitions
RECURSIVE ProjectDict(_, _)
ProjectDict(items, acc) ==
  IF items = <<>> THEN acc
  ELSE
    LET key == LastComponent(items[1].key)
        P == {i \in 1..Len(acc) : acc[i].key = key}
        p == IF P = {} THEN 0 ELSE CHOOSE i \in P : TRUE
    IN ProjectDict(Tail(items),
                   IF p = 0 THEN Append(acc, [key |-> key, ids |-> items[1].ids])
                   ELSE [acc EXCEPT ![p].ids = items[1].ids])

\* FST.project(-1): self, changed in place
project(F) ==
  [F EXCEPT !.st = [k \in DOMAIN F.st |->
                      IF k \in F.states
                      THEN [F.st[k] EXCEPT !.transitions = ProjectDict(@, <<>>)]
                      ELSE F.st[k]]]

\* FST.ignore
ignore(self, other) ==
  The({[value |-> project(c.value), self |-> c.self, other |-> other] :
         c \in {The({compose(self, k, FALSE) :
                       k \in {kleene_closure(
                                union(FST(<<".">>, 0, {}),
                                      cross_product(FST(<<"">>, 0, {}), other, FALSE).value,
                                      FALSE).value,
                                "star")}})}})

----------------------------------------------------------------------------
(* The weighted language of an FST: the cost of a word (a sequence of      *)
(* labels, the all-epsilon labels deleted) is the least total weight of a  *)
(* path from the initial state to a final state that spells it, plus that  *)
(* state's final weight; Inf when there is none.  Weights are >= 0.         *)

\* one round of relaxation of the distances d[<<state, position>>]
Relax(F, w, d) ==
  [x \in DOMAIN d |->
     MinOf({d[x]} \cup
           {WAdd(d[<<y[1], x[2]>>], F.st[y[1]].tobj[y[3]].weight) :
              y \in {z \in fst_all_transitions(F, F.states) :
                       /\ F.st[z[1]].tobj[z[3]].targetstate = x[1]
                       /\ IsEpsilon(z[2])}} \cup
           {WAdd(d[<<y[1], x[2] - 1>>], F.st[y[1]].tobj[y[3]].weight) :
              y \in {z \in fst_all_transitions(F, F.states) :
                       /\ F.st[z[1]].tobj[z[3]].targetstate = x[1]
                       /\ x[2] > 0
                       /\ z[2] = w[x[2]]}})]

RECURSIVE RelaxN(_, _, _, _)
RelaxN(F, w, d, n) == IF n = 0 THEN d ELSE RelaxN(F, w, Relax(F, w, d), n - 1)

Cost(F, w) ==
  LET nodes == F.states \X (0..Len(w))
      d0 == [x \in nodes |-> IF x = <<F.initialstate, 0>> THEN 0 ELSE Inf]
      d == RelaxN(F, w, d0, Cardinality(nodes))
  IN MinOrInf({WAdd(d[<<f, Len(w)>>], F.st[f].finalweight) : f \in F.finalstates})

\* the cost of the concatenation of words of F that spell w, at the least:
\* the weighted Kleene law
RECURSIVE KleeneCost(_, _)
KleeneCost(F, w) ==
  IF w = <<>> THEN 0
  ELSE MinOrInf({WAdd(Cost(F, SubSeq(w, 1, k)), KleeneCost(F, SubSeq(w, k + 1, Len(w)))) :
                   k \in 1..Len(w)})

\* The weighted relation of an FST: the cost of a pair of words <<x, y>> is the
\* least total weight of a path from the initial state to a final state whose
\* labels' first components spell x and whose last components spell y (the
\* empty components deleted), plus the final weight; Inf when there is none.
RelRelax(F, x, y, d) ==
  [n \in DOMAIN d |->
     MinOf({d[n]} \cup
           {WAdd(d[<<z[1], n[2] - (IF z[2][1] = "" THEN 0 ELSE 1),
                     n[3] - (IF Last(z[2]) = "" THEN 0 ELSE 1)>>],
                 F.st[z[1]].tobj[z[3]].weight) :
              z \in {t \in fst_all_transitions(F, F.states) :
                       /\ F.st[t[1]].tobj[t[3]].targetstate = n[1]
                       /\ (t[2][1] # "" => (n[2] > 0 /\ x[n[2]] = t[2][1]))
                       /\ (Last(t[2]) # "" => (n[3] > 0 /\ y[n[3]] = Last(t[2])))}})]

RECURSIVE RelFix(_, _, _, _)
RelFix(F, x, y, d) ==
  LET e == RelRelax(F, x, y, d) IN IF e = d THEN d ELSE RelFix(F, x, y, e)

RelCost(F, x, y) ==
  LET nodes == F.states \X (0..Len(x)) \X (0..Len(y))
      d == RelFix(F, x, y, [n \in nodes |-> IF n = <<F.initialstate, 0, 0>> THEN 0 ELSE Inf])
  IN MinOrInf({WAdd(d[<<f, Len(x), Len(y)>>], F.st[f].finalweight) : f \in F.finalstates})

\* the sequences over S of length at most n
RECURSIVE SeqsUpTo(_, _)
SeqsUpTo(S, n) ==
  IF n = 0 THEN {<<>>}
  ELSE LET P == SeqsUpTo(S, n - 1) IN P \cup {Append(w, x) : w \in P, x \in S}

----------------------------------------------------------------------------
(* The FSTs the specifications start from.  An FST built by hand, by       *)
(* FST.rlg or by earlier operations: states 1..n, initial state 1, a final  *)
(* weight for each final state, and a set of arcs <<source, label, target,  *)
(* weight>>.                                                               *)

MaxStates == 2
MaxWeight == 1
MaxWord == 3

ArcsOf(n, labels, maxw) == (1..n) \X labels \X (1..n) \X (0..maxw)

Make(n, fin, arcs) ==
  [initialstate |-> 1,
   states |-> 1..n,
   finalstates |-> {i \in 1..n : fin[i] # Inf},
   alphabet |-> UNION {Range(a[2]) : a \in arcs} \ {""},
   st |-> [i \in 1..n |->
             LET mine == SetToSeq({a \in arcs : a[1] = i})
             IN AddSeq(State(fin[i]), [j \in 1..Len(mine) |-> <<mine[j][3], mine[j][2], mine[j][4]>>])]]

\* at most two arcs
Family(n, labels, maxw) ==
  {Make(n, fin, arcs) :
     fin \in [1..n -> {Inf} \cup (0..maxw)],
     arcs \in {{}} \cup {{a, b} : a, b \in ArcsOf(n, labels, maxw)}}

Acceptors == Family(MaxStates, {<<"a">>, <<"b">>}, MaxWeight)

Words == SeqsUpTo({<<"a">>, <<"b">>}, MaxWord)

----------------------------------------------------------------------------
(* kleene_closure *)

InitKleene ==
  /\ heap \in {[A |-> F] : F \in Acceptors}
  /\ pc = "start"
  /\ snap = heap
  /\ out = <<>>

KleeneStar ==
  /\ pc = "start"
  /\ heap' = [A |-> heap.A, R |-> kleene_closure(heap.A, "star")]
  /\ pc' = "star"
  /\ UNCHANGED <<snap, out>>

KleenePlus ==
  /\ pc = "start"
  /\ heap' = [A |-> heap.A, R |-> kleene_closure(heap.A, "plus")]
  /\ pc' = "plus"
  /\ UNCHANGED <<snap, out>>

NextKleene == KleeneStar \/ KleenePlus

SpecKleene == InitKleene /\ [][NextKleene]_vars

\* C2: kleene_closure satisfies the weighted Kleene law: the cost of a word in
\* A* is the least sum of the costs in A of words that concatenate to it, the
\* empty word costing 0.
C2_KleeneLaw ==
  pc = "star" => \A w \in Words : Cost(heap.R, w) = KleeneCost(heap.A, w)

----------------------------------------------------------------------------
(* epsilon_removal *)

EpsStates == 3

EpsInputs == Family(EpsStates, {<<"">>, <<"a">>}, MaxWeight)

EpsWords == SeqsUpTo({<<"a">>}, MaxWord)

InitEps ==
  /\ heap \in {[A |-> F] : F \in EpsInputs}
  /\ pc = "start"
  /\ snap = heap
  /\ out = <<>>

EpsilonRemoval ==
  /\ pc = "start"
  /\ \E ord \in Permutations(heap.A.states) :
       heap' = [A |-> heap.A, R |-> epsilon_removal(heap.A, ord)]
  /\ pc' = "done"
  /\ UNCHANGED <<snap, out>>

NextEps == EpsilonRemoval

SpecEps == InitEps /\ [][NextEps]_vars

\* the labels in use in an FST
Labels(F) == {x[2] : x \in fst_all_transitions(F, F.states)}

\* C3: epsilon_removal preserves the weighted language: every word costs in
\* the result what it costs in the input.
C3_EpsRemovalPreservesLanguage ==
  pc = "done" => \A w \in EpsWords : Cost(heap.R, w) = Cost(heap.A, w)

\* C4: the result of epsilon_removal has no transition whose label is the
\* empty string on every tape.
C4_NoEpsilonLabel ==
  pc = "done" => \A l \in Labels(heap.R) : ~IsEpsilon(l)

----------------------------------------------------------------------------
(* determinize, minimize *)

MaxMacro == 6

Picks == {"least", "greatest"}

InitDet ==
  /\ heap \in {[A |-> F] : F \in Acceptors}
  /\ pc = "start"
  /\ snap = heap
  /\ out = <<>>

Determinize ==
  /\ pc = "start"
  /\ \E pick \in Picks :
       \E d \in {determinize(heap.A, pick, MaxMacro)} :
          /\ heap' = [A |-> heap.A, R |-> d.fst]
          /\ out' = <<d.ok>>
  /\ pc' = "determinized"
  /\ UNCHANGED snap

Minimize ==
  /\ pc = "start"
  /\ \E picks \in Picks \X Picks :
       \E d \in {minimize(heap.A, picks, MaxMacro)} :
          /\ heap' = [A |-> heap.A, R |-> d.fst]
          /\ out' = <<d.ok>>
  /\ pc' = "minimized"
  /\ UNCHANGED snap

MinimizeAgain ==
  /\ pc = "minimized"
  /\ out[1]
  /\ \E picks \in Picks \X Picks :
       \E d \in {minimize(heap.R, picks, MaxMacro)} :
          /\ heap' = [A |-> heap.A, R |-> heap.R, RR |-> d.fst]
          /\ out' = <<d.ok>>
  /\ pc' = "minimized twice"
  /\ UNCHANGED snap

NextDet == Determinize \/ Minimize \/ MinimizeAgain

SpecDet == InitDet /\ [][NextDet]_vars

\* at most one outgoing transition per label per state
Deterministic(F) ==
  \A s \in F.states : \A i \in 1..Len(F.st[s].transitions) :
     Cardinality(F.st[s].transitions[i].ids) <= 1

SameLanguage(F, G) == \A w \in Words : Cost(F, w) = Cost(G, w)

\* C5: when determinize ends, its result has at most one transition per label
\* per state and gives every word the cost the input gives it.
C5_DeterminizePreserves ==
  (pc = "determinized" /\ out[1]) => (Deterministic(heap.R) /\ SameLanguage(heap.R, heap.A))

\* C6: when minimize ends, its result gives every word the cost the input
\* gives it, and minimizing the result again gives as many states.
C6_MinimizePreserves ==
  /\ (pc = "minimized" /\ out[1]) => SameLanguage(heap.R, heap.A)
  /\ (pc = "minimized twice" /\ out[1]) =>
        Cardinality(heap.RR.states) = Cardinality(heap.R.states)

----------------------------------------------------------------------------
(* push_weights *)

PushStates == 3
MaxPath == 4

\* at most three arcs, all with the label a
PushInputs ==
  {Make(PushStates, fin, arcs) :
     fin \in [1..PushStates -> {Inf} \cup (0..MaxWeight)],
     arcs \in {{a, b, c} : a, b, c \in ArcsOf(PushStates, {<<"a">>}, MaxWeight)}}

InitPush ==
  /\ heap \in {[A |-> F] : F \in PushInputs}
  /\ pc = "start"
  /\ snap = heap
  /\ out = <<>>

\* A.push_weights(): A itself is changed and returned
PushWeights ==
  /\ pc = "start"
  /\ \E ord \in Permutations(heap.A.states) :
       heap' = [A |-> push_weights(heap.A, ord)]
  /\ pc' = "pushed"
  /\ UNCHANGED <<snap, out>>

NextPush == PushWeights

SpecPush == InitPush /\ [][NextPush]_vars

\* the state a path ends in; a path is a sequence of <<state, label,
\* transition id>> that starts at the initial state
PathEnd(F, p) ==
  IF p = <<>> THEN F.initialstate ELSE F.st[Last(p)[1]].tobj[Last(p)[3]].targetstate

RECURSIVE PathsUpTo(_, _)
PathsUpTo(F, n) ==
  IF n = 0 THEN {<<>>}
  ELSE LET P == PathsUpTo(F, n - 1)
       IN P \cup UNION {{Append(p, x) : x \in fst_all_transitions(F, {PathEnd(F, p)})} : p \in P}

AcceptingPaths(F, n) == {p \in PathsUpTo(F, n) : PathEnd(F, p) \in F.finalstates}

RECURSIVE ArcSum(_, _)
ArcSum(F, p) ==
  IF p = <<>> THEN 0 ELSE WAdd(F.st[p[1][1]].tobj[p[1][3]].weight, ArcSum(F, Tail(p)))

\* the total weight of an accepting path: its arcs' weights and the final weight
PathWeight(F, p) == WAdd(ArcSum(F, p), F.st[PathEnd(F, p)].finalweight)

\* the states that the initial state reaches and that reach it
MainScc(F) ==
  LET R1 == {s \in F.states : \E p \in PathsUpTo(F, PushStates) : PathEnd(F, p) = s}
      back(s) == \E p \in PathsUpTo([F EXCEPT !.initialstate = s], PushStates) :
                    PathEnd([F EXCEPT !.initialstate = s], p) = F.initialstate
  IN {s \in R1 : back(s)}

\* C7: push_weights leaves the total weight of every accepting path as it was
\* (the arcs' weights plus the final weight), the paths themselves unchanged.
C7_PushWeightsKeepsPathWeights ==
  pc = "pushed" =>
    /\ AcceptingPaths(heap.A, MaxPath) = AcceptingPaths(snap.A, MaxPath)
    /\ \A p \in AcceptingPaths(snap.A, MaxPath) : PathWeight(heap.A, p) = PathWeight(snap.A, p)

\* push_weights has acted on an FST whose initial state lies on a cycle, with a
\* residual that is not 0, with an accepting path that ends inside the initial
\* state's component after going round the cycle and one that ends outside it,
\* and it has changed a weight
C7_Witness ==
  /\ pc = "pushed"
  /\ heap.A # snap.A
  /\ dijkstra(snap.A, snap.A.initialstate, [s \in snap.A.states |-> s]) \notin {0, Inf}
  /\ \E p \in AcceptingPaths(snap.A, MaxPath) :
       /\ PathEnd(snap.A, p) \in MainScc(snap.A)
       /\ \E i \in 1..Len(p) : snap.A.st[p[i][1]].tobj[p[i][3]].targetstate = snap.A.initialstate
  /\ \E p \in AcceptingPaths(snap.A, MaxPath) : PathEnd(snap.A, p) \notin MainScc(snap.A)

----------------------------------------------------------------------------
(* compose: A.compose(B.compose(C)) and A.compose(B).compose(C) on the same *)
(* three objects                                                           *)

MaxTape == 1

Symbols == {"a", "b", "."}

\* the labels of one or two tapes, the all-epsilon ones left out
TapeLabels ==
  {<<x>> : x \in Symbols} \cup
  ({<<x, y>> : x, y \in Symbols \cup {""}} \ {<<"", "">>})

\* one arc of weight MaxWeight from the initial state to the final state
Transducers ==
  {Make(2, [i \in 1..2 |-> IF i = 2 THEN 0 ELSE Inf], {<<1, l, 2, MaxWeight>>}) :
     l \in TapeLabels}

Tapes == SeqsUpTo(Symbols, MaxTape)

Has(n) == n \in DOMAIN heap

\* the heap with the object n put in it
With(h, n, F) == [x \in DOMAIN h \cup {n} |-> IF x = n THEN F ELSE h[x]]

InitCompose ==
  /\ heap \in {[A |-> F, B |-> G, C |-> H] : F \in Transducers, G \in Transducers, H \in Transducers}
  /\ pc = "start"
  /\ snap = heap
  /\ out = <<>>

\* BC = B.compose(C)
ComposeBC ==
  /\ ~Has("BC") /\ (Has("AB") => Has("R2"))
  /\ \E r \in {compose(heap.B, heap.C, FALSE)} :
       heap' = With(With(With(heap, "B", r.self), "C", r.other), "BC", r.value)
  /\ pc' = "B.compose(C)"
  /\ UNCHANGED <<snap, out>>

\* R1 = A.compose(BC)
ComposeA_BC ==
  /\ Has("BC") /\ ~Has("R1")
  /\ \E r \in {compose(heap.A, heap.BC, FALSE)} :
       heap' = With(With(With(heap, "A", r.self), "BC", r.other), "R1", r.value)
  /\ pc' = "A.compose(BC)"
  /\ UNCHANGED <<snap, out>>

\* AB = A.compose(B)
ComposeAB ==
  /\ ~Has("AB") /\ (Has("BC") => Has("R1"))
  /\ \E r \in {compose(heap.A, heap.B, FALSE)} :
       heap' = With(With(With(heap, "A", r.self), "B", r.other), "AB", r.value)
  /\ pc' = "A.compose(B)"
  /\ UNCHANGED <<snap, out>>

\* R2 = AB.compose(C)
ComposeAB_C ==
  /\ Has("AB") /\ ~Has("R2")
  /\ \E r \in {compose(heap.AB, heap.C, FALSE)} :
       heap' = With(With(With(heap, "AB", r.self), "C", r.other), "R2", r.value)
  /\ pc' = "AB.compose(C)"
  /\ UNCHANGED <<snap, out>>

NextCompose == ComposeBC \/ ComposeA_BC \/ ComposeAB \/ ComposeAB_C

SpecCompose == InitCompose /\ [][NextCompose]_vars

SameRelation(F, G) == \A x \in Tapes, y \in Tapes : RelCost(F, x, y) = RelCost(G, x, y)

\* C8: A.compose(B.compose(C)) and A.compose(B).compose(C), computed on the
\* same three objects, relate the same pairs of words at the same least cost.
C8_ComposeAssociative ==
  (Has("R1") /\ Has("R2")) => SameRelation(heap.R1, heap.R2)

----------------------------------------------------------------------------
(* The binary operators and their operands *)

\* acceptors of two states and at most one arc, over a, b and the wildcard
FrameInputs ==
  {Make(2, fin, arcs) :
     fin \in [1..2 -> {Inf, 0}],
     arcs \in {{}} \cup {{a} : a \in ArcsOf(2, {<<"a">>, <<"b">>, <<".">>}, 0)}}

InitFrame ==
  /\ heap \in {[A |-> F, B |-> G] : F \in FrameInputs, G \in FrameInputs}
  /\ pc = "start"
  /\ snap = heap
  /\ out = <<>>

\* the heap after R = A.op(B), or R = A.op(A) when same, with result r
Called(r, same) ==
  [A |-> r.self, B |-> IF same THEN heap.B ELSE r.other, R |-> r.value]

Union ==
  /\ pc = "start"
  /\ \E same \in BOOLEAN :
       \E r \in {union(heap.A, IF same THEN heap.A ELSE heap.B, same)} :
          heap' = Called(r, same)
  /\ pc' = "union"
  /\ UNCHANGED <<snap, out>>

Concatenate ==
  /\ pc = "start"
  /\ \E same \in BOOLEAN :
       \E r \in {concatenate(heap.A, IF same THEN heap.A ELSE heap.B, same)} :
          heap' = Called(r, same)
  /\ pc' = "concatenate"
  /\ UNCHANGED <<snap, out>>

Compose ==
  /\ pc = "start"
  /\ \E same \in BOOLEAN :
       \E r \in {compose(heap.A, IF same THEN heap.A ELSE heap.B, same)} :
          heap' = Called(r, same)
  /\ pc' = "compose"
  /\ UNCHANGED <<snap, out>>

CrossProduct ==
  /\ pc = "start"
  /\ \E same \in BOOLEAN :
       \E r \in {cross_product(heap.A, IF same THEN heap.A ELSE heap.B, same)} :
          heap' = Called(r, same)
  /\ pc' = "cross_product"
  /\ UNCHANGED <<snap, out>>

Intersection ==
  /\ pc = "start"
  /\ \E same \in BOOLEAN :
       \E r \in {intersection(heap.A, IF same THEN heap.A ELSE heap.B, same)} :
          heap' = Called(r, same)
  /\ pc' = "intersection"
  /\ UNCHANGED <<snap, out>>

Difference ==
  /\ pc = "start"
  /\ \E same \in BOOLEAN :
       \E r \in {difference(heap.A, IF same THEN heap.A ELSE heap.B, same)} :
          heap' = Called(r, same)
  /\ pc' = "difference"
  /\ UNCHANGED <<snap, out>>

NextFrame == Union \/ Concatenate \/ Compose \/ CrossProduct \/ Intersection \/ Difference

SpecFrame == InitFrame /\ [][NextFrame]_vars

\* what a caller can see of an FST: its states, initial state, final states
\* and alphabet, each state's transitions (the objects with their label,
\* target and weight) and final weight; the lazy indices are not part of it
Observable(F) ==
  [states |-> F.states,
   initialstate |-> F.initialstate,
   finalstates |-> F.finalstates,
   alphabet |-> F.alphabet,
   transitions |-> [k \in F.states |->
                      {<<x[1], x[2], F.st[k].tobj[x[2]].targetstate, F.st[k].tobj[x[2]].weight>> :
                         x \in TransSet(F.st[k])}],
   finalweight |-> [k \in F.states |-> F.st[k].finalweight]]

\* C1: after a binary operator both operands have the states, transitions,
\* final states, final weights and alphabet they had before the call.
C1_OperandsUnchanged ==
  pc # "start" =>
    /\ Observable(heap.A) = Observable(snap.A)
    /\ Observable(heap.B) = Observable(snap.B)

----------------------------------------------------------------------------
(* regexparse.compile: X{m}, X{,n}, X{m,} and X{m,n} *)

MaxRep == 2

\* what the stack holds for X: an acceptor with weights 0
RangeInputs == Family(MaxStates, {<<"a">>, <<"b">>}, 0)

InitRange ==
  /\ heap \in {[lang |-> F] : F \in RangeInputs}
  /\ pc = "start"
  /\ snap = heap
  /\ out = <<>>

\* the state after the RANGE token: the FST on the stack, or the error
Ranged(r, lo, hi) ==
  /\ heap' = [lang |-> r.lang, R |-> r.value]
  /\ pc' = IF r.raised = "" THEN "RANGE" ELSE r.raised
  /\ out' = <<lo, hi>>
  /\ UNCHANGED snap

\* X{m}
Exactly ==
  /\ pc = "start"
  /\ \E m \in 0..MaxRep : \E r \in {RangeExactly(heap.lang, m)} : Ranged(r, m, m)

\* X{,n}
AtMost ==
  /\ pc = "start"
  /\ \E n \in 0..MaxRep : \E r \in {RangeAtMost(heap.lang, n)} : Ranged(r, 0, n)

\* X{m,}; a word of MaxWord symbols needs no more than m + MaxWord factors
AtLeast ==
  /\ pc = "start"
  /\ \E m \in 0..MaxRep : \E r \in {RangeAtLeast(heap.lang, m)} : Ranged(r, m, m + MaxWord)

\* X{m,n} with m <= n
Between ==
  /\ pc = "start"
  /\ \E m \in 0..MaxRep : \E n \in m..MaxRep :
       \E r \in {RangeBetween(heap.lang, m, n)} : Ranged(r, m, n)

\* return _pop(stack).trim().push_weights().minimize().  push_weights gives
\* the same FST whatever the order of its sets (SpecPush goes through all of
\* them), so it is given one order here.
CompileReturn ==
  /\ pc = "RANGE"
  /\ \E picks \in Picks \X Picks :
       \E d \in {minimize(push_weights(trim(heap.R), [s \in DOMAIN heap.R.st |-> s]),
                           picks, MaxMacro)} :
          /\ d.ok
          /\ heap' = [lang |-> heap.lang, R |-> d.fst]
  /\ pc' = "compiled"
  /\ UNCHANGED <<snap, out>>

NextRange == Exactly \/ AtMost \/ AtLeast \/ Between \/ CompileReturn

SpecRange == InitRange /\ [][NextRange]_vars

\* the cost of w as a concatenation of k words of F, at the least
RECURSIVE KFoldCost(_, _, _)
KFoldCost(F, w, k) ==
  IF k = 0 THEN (IF w = <<>> THEN 0 ELSE Inf)
  ELSE MinOf({WAdd(Cost(F, SubSeq(w, 1, i)), KFoldCost(F, SubSeq(w, i + 1, Len(w)), k - 1)) :
                i \in 0..Len(w)})

RangeCost(F, w, lo, hi) == MinOrInf({KFoldCost(F, w, k) : k \in lo..hi})

\* C9: X{m}, X{,n}, X{m,} and X{m,n} with m <= n compile, and the compiled FST
\* accepts exactly the words that are concatenations of k words of X for some
\* k from m to n.
C9_RangeLanguage ==
  /\ pc \notin {"TypeError", "SyntaxError"}
  /\ pc = "compiled" =>
       \A w \in Words : Cost(heap.R, w) = RangeCost(snap.lang, w, out[1], out[2])

----------------------------------------------------------------------------
(* ignore *)

\* acceptors with weights 0
IgnoreInputs == Family(MaxStates, {<<"a">>, <<"b">>}, 0)

InitIgnore ==
  /\ heap \in {[A |-> F, B |-> G] : F \in IgnoreInputs, G \in IgnoreInputs}
  /\ pc = "start"
  /\ snap = heap
  /\ out = <<>>

\* R = A.ignore(B)
Ignore ==
  /\ pc = "start"
  /\ \E r \in {ignore(heap.A, heap.B)} : heap' = [A |-> r.self, B |-> r.other, R |-> r.value]
  /\ pc' = "ignore"
  /\ UNCHANGED <<snap, out>>

NextIgnore == Ignore

SpecIgnore == InitIgnore /\ [][NextIgnore]_vars

Accepts(F, w) == Cost(F, w) # Inf

\* w is u with words of B* put before its first symbol, between its symbols
\* and after its last
RECURSIVE Inserted(_, _, _)
Inserted(B, u, w) ==
  IF u = <<>> THEN KleeneCost(B, w) # Inf
  ELSE \E i \in 1..Len(w) :
         /\ KleeneCost(B, SubSeq(w, 1, i - 1)) # Inf
         /\ w[i] = u[1]
         /\ Inserted(B, Tail(u), SubSeq(w, i + 1, Len(w)))

\* C10: A.ignore(B) accepts exactly the words of A with words of B inserted
\* between any positions.
C10_IgnoreLanguage ==
  pc = "ignore" =>
    \A w \in Words :
       Accepts(heap.R, w) <=> \E u \in Words : Accepts(snap.A, u) /\ Inserted(snap.B, u, w)

----------------------------------------------------------------------------
(* Character classes: regexparse.character_class_parse, FST.character_ranges *)
(* and the end of regexparse.compile.  A str is the sequence of its         *)
(* characters.                                                              *)

\* ord(c) of the characters the classes here are written with
Ord(c) ==
  CASE c = "a" -> 97 [] c = "b" -> 98 [] c = "c" -> 99 [] c = "d" -> 100
    [] c = "-" -> 45 [] c = "^" -> 94 [] c = "\\" -> 92

\* chr(n)
Chr(n) == CHOOSE c \in {"a", "b", "c", "d", "-", "^", "\\"} : Ord(c) = n

\* the positions of s that satisfy the flags f, in increasing order
Positions(f) == SelectSeq([i \in 1..Len(f) |-> i], LAMBDA i : f[i])

\* regexparse.character_class_parse(charclass): the exception raised, if any
\* (a bare SyntaxError, not one made by _error_report), else ranges and negated
character_class_parse(charclass) ==
  LET negated == charclass[1] = "^"
      cc == IF negated THEN Tail(charclass) ELSE charclass
      clncc == SelectSeq(cc, LAMBDA l : l # "\\")
      \* j when a backslash is met: the letters appended so far
      escaped == {Cardinality({k \in 1..i : cc[k] # "\\"}) :
                    i \in {k \in 1..Len(cc) : cc[k] = "\\"}}
      n == Len(clncc)
      marks == [i \in 1..n |->
                  clncc[i] = "-" /\ (i - 1) \notin escaped /\ i # 1 /\ i # n]
      marked == Positions(marks)
      singles == [i \in 1..n |->
                    marks[i] \/ (i < n /\ marks[i + 1]) \/ (i > 1 /\ marks[i - 1])]
      single == Positions([i \in 1..n |-> ~singles[i]])
      ranges == [k \in 1..Len(marked) |->
                   <<Ord(clncc[marked[k] - 1]), Ord(clncc[marked[k] + 1])>>]
                \o [k \in 1..Len(single) |->
                      <<Ord(clncc[single[k]]), Ord(clncc[single[k]])>>]
  IN IF \E k \in 1..Len(ranges) : ranges[k][1] > ranges[k][2]
     THEN [raised |-> "SyntaxError", payload |-> FALSE, ranges |-> <<>>, negated |-> negated]
     ELSE [raised |-> "", payload |-> FALSE, ranges |-> ranges, negated |-> negated]

\* the code points of the ranges, range by range, each from start to end
RangeSymbols(ranges) ==
  Flatten([i \in 1..Len(ranges) |->
             [j \in 1..(ranges[i][2] - ranges[i][1] + 1) |-> Chr(ranges[i][1] + j - 1)]])

\* FST.character_ranges(ranges, complement).  "symbol not in alphabet" asks
\* whether an int is in a set of str, which it never is, so every code point
\* of every range gets its add_transition.
character_ranges(ranges, complement) ==
  LET syms == RangeSymbols(ranges)
      adds == IF complement THEN <<<<2, <<".">>, 0>>>>
              ELSE [i \in 1..Len(syms) |-> <<2, <<syms[i]>>, 0>>]
  IN [initialstate |-> 1, states |-> {1, 2}, finalstates |-> {2},
      alphabet |-> Range(syms),
      st |-> <<AddSeq(NewState, adds), State(0)>>]

\* return _pop(stack).trim().push_weights().minimize(): [ok, fst].
\* push_weights gives the same FST whatever the order of its sets, so it is
\* given one order here.
CompileEnd(F, picks) ==
  The({minimize(push_weights(T, [s \in DOMAIN T.st |-> s]), picks, MaxMacro) :
         T \in {trim(F)}})

----------------------------------------------------------------------------
(* regex("[^C]") and an FST B, intersected and composed *)

Letters == {"a", "b", "c", "d"}

\* the class bodies: one or two letters, or a range x-y
ClassBodies ==
  {<<x>> : x \in Letters} \cup {<<x, y>> : x, y \in Letters}
    \cup {<<x, "-", y>> : x, y \in Letters}

\* acceptors of two states and at most one arc over the letters
ClassOperands ==
  {Make(2, fin, arcs) :
     fin \in [1..2 -> {Inf, 0}],
     arcs \in {{}} \cup {{a} : a \in ArcsOf(2, {<<x>> : x \in Letters}, 0)}}

InitClass ==
  /\ snap \in {[body |-> c, B |-> G] : c \in ClassBodies, G \in ClassOperands}
  /\ heap = [B |-> snap.B]
  /\ pc = "start"
  /\ out = <<>>

\* A = FST.regex("[^C]")
NegatedClass ==
  /\ pc = "start"
  /\ \E p \in {character_class_parse(<<"^">> \o snap.body)} :
       IF p.raised # ""
       THEN /\ pc' = p.raised
            /\ out' = <<>>
            /\ UNCHANGED heap
       ELSE \E picks \in Picks \X Picks :
              \E d \in {CompileEnd(character_ranges(p.ranges, p.negated), picks)} :
                 /\ d.ok
                 /\ heap' = [B |-> heap.B, A |-> d.fst]
                 /\ out' = p.ranges
                 /\ pc' = "regex"
  /\ UNCHANGED snap

\* R = A & B, or B & A
ClassIntersection ==
  /\ pc = "regex"
  /\ \/ \E r \in {intersection(heap.A, heap.B, FALSE)} :
          heap' = [A |-> r.self, B |-> r.other, R |-> r.value]
     \/ \E r \in {intersection(heap.B, heap.A, FALSE)} :
          heap' = [B |-> r.self, A |-> r.other, R |-> r.value]
  /\ pc' = "intersection"
  /\ UNCHANGED <<snap, out>>

\* R = A @ B, or B @ A
ClassCompose ==
  /\ pc = "regex"
  /\ \/ \E r \in {compose(heap.A, heap.B, FALSE)} :
          heap' = [A |-> r.self, B |-> r.other, R |-> r.value]
     \/ \E r \in {compose(heap.B, heap.A, FALSE)} :
          heap' = [B |-> r.self, A |-> r.other, R |-> r.value]
  /\ pc' = "compose"
  /\ UNCHANGED <<snap, out>>

NextClass == NegatedClass \/ ClassIntersection \/ ClassCompose

SpecClass == InitClass /\ [][NextClass]_vars

\* the symbols of the class parsed into the ranges out
ClassSymbols == Range(RangeSymbols(out))

\* C11: when B's alphabet has a symbol outside C, [^C] intersected or composed
\* with B accepts a one-symbol word x exactly when x is a symbol B accepts
\* that is not in C.
C11_NegatedClassIsWildcard ==
  (pc \in {"intersection", "compose"} /\ snap.B.alphabet \ ClassSymbols # {}) =>
    \A x \in Letters :
       Accepts(heap.R, <<<<x>>>>) <=> (x \notin ClassSymbols /\ Accepts(snap.B, <<<<x>>>>))

----------------------------------------------------------------------------
(* FST.rlg.  A grammar is a sequence of [name, rules]; a rule is            *)
(* [i, o, target, w]: the tokens of the two sides of its left-hand side as  *)
(* _rlg_tokenize gives them (an unescaped space is the token ""; o = i for  *)
(* a one-sided rule), the target's name and its weight.                     *)

\* the inner loop over zip_longest(i, o, range(max(len(i), len(o)))) from idx
\* on; G is the FST under construction, ids the dict statedict
RECURSIVE RlgArcs(_, _, _, _, _)
RlgArcs(G, ids, currstate, rule, idx) ==
  LET n == IF Len(rule.i) > Len(rule.o) THEN Len(rule.i) ELSE Len(rule.o)
      ii == IF idx + 1 <= Len(rule.i) THEN rule.i[idx + 1] ELSE ""
      oo == IF idx + 1 <= Len(rule.o) THEN rule.o[idx + 1] ELSE ""
      new == Len(G.st) + 1
  IN IF idx >= n THEN G
     ELSE IF idx = n - 1
     THEN [G EXCEPT !.st[currstate] = add_transition(@, ids[rule.target], <<ii, oo>>, rule.w)]
     ELSE The({RlgArcs(next, ids, new, rule, idx + 1) :
                 next \in {[G EXCEPT !.states = @ \cup {new},
                                     !.st = Append(@, NewState) ,
                                     !.st[currstate] = add_transition(@, new, <<ii, oo>>, 0)]}})

\* the loop over the rules of one name
RECURSIVE RlgRules(_, _, _, _)
RlgRules(G, ids, bigstate, rules) ==
  IF rules = <<>> THEN G
  ELSE The({RlgRules(next, ids, bigstate, Tail(rules)) :
              next \in {RlgArcs([G EXCEPT !.alphabet =
                                    @ \cup Range(rules[1].i) \cup Range(rules[1].o)],
                                ids, ids[bigstate], rules[1], 0)}})

\* the loop over the names
RECURSIVE RlgNames(_, _, _, _)
RlgNames(G, ids, grammar, k) ==
  IF k > Len(grammar) THEN G
  ELSE The({RlgNames(next, ids, grammar, k + 1) :
              next \in {RlgRules(G, ids, grammar[k].name, grammar[k].rules)}})

\* FST.rlg(grammar, startsymbol)
rlg(grammar, startsymbol) ==
  LET names == [k \in 1..Len(grammar) |-> grammar[k].name] \o <<"#">>
      ids == [nm \in Range(names) |-> PosIn(names, nm)]
      G0 == [initialstate |-> ids[startsymbol],
             states |-> 1..Len(names),
             finalstates |-> {ids["#"]},
             alphabet |-> {},
             st |-> [k \in 1..Len(names) |-> IF names[k] = "#" THEN State(0) ELSE NewState]]
  IN RlgNames(G0, ids, grammar, 1)

----------------------------------------------------------------------------
(* FSTs made by the constructors and then by operations on them *)

MaxOps == 2
MaxOrdered == 3

Rule(i, o, target, w) == [i |-> i, o |-> o, target |-> target, w |-> w]

\* S -> a #;  S -> a S | b #;  S -> ab:c # / 1;  S -> 'a b' #  (a, a space,
\* b: the space is there for alignment)
Grammars ==
  {<<[name |-> "S", rules |-> <<Rule(<<"a">>, <<"a">>, "#", 0)>>]>>,
   <<[name |-> "S", rules |-> <<Rule(<<"a">>, <<"a">>, "S", 0), Rule(<<"b">>, <<"b">>, "#", 0)>>]>>,
   <<[name |-> "S", rules |-> <<Rule(<<"a", "b">>, <<"c">>, "#", 1)>>]>>,
   <<[name |-> "S", rules |-> <<Rule(<<"a", "", "b">>, <<"a", "", "b">>, "#", 0)>>]>>}

\* FST(), FST(label = ...), FST.character_ranges(...) for [a-b], [aa] and
\* [^a], FST.rlg(...)
Constructed ==
  {FST(l, 0, {}) : l \in {NoLabel, <<"">>, <<"a">>, <<".">>, <<"a", "b">>, <<"a", "">>}}
    \cup {character_ranges(<<<<97, 98>>>>, FALSE),
          character_ranges(<<<<97, 97>>, <<97, 97>>>>, FALSE),
          character_ranges(<<<<97, 97>>>>, TRUE)}
    \cup {rlg(g, "S") : g \in Grammars}

\* the second operand at the start
ConstructedB ==
  {FST(l, 0, {}) : l \in {<<"">>, <<"b">>, <<".">>}} \cup {character_ranges(<<<<97, 97>>>>, TRUE)}

InitOps ==
  /\ heap \in {[A |-> F, B |-> G] : F \in Constructed, G \in ConstructedB}
  /\ pc = "constructed"
  /\ snap = heap
  /\ out = 0

\* A = op(A) for an operation that gives a new FST or gives self
Unary(value, name) ==
  /\ heap' = [A |-> value, B |-> heap.B]
  /\ pc' = name
  /\ out' = out + 1
  /\ snap' = heap

\* R = A.op(B), or A.op(A) when same; R and one of the operands are kept
Binary(r, same, name) ==
  /\ \/ heap' = [A |-> r.value, B |-> IF same THEN heap.B ELSE r.other]
     \/ heap' = [A |-> r.value, B |-> r.self]
  /\ pc' = name
  /\ out' = out + 1
  /\ snap' = heap

OpKleene ==
  /\ out < MaxOps
  /\ \E mode \in {"star", "plus"} : \E v \in {kleene_closure(heap.A, mode)} : Unary(v, "kleene_closure")

OpOptional ==
  /\ out < MaxOps
  /\ \E v \in {optional(heap.A)} : Unary(v, "optional")

OpReverse ==
  /\ out < MaxOps
  /\ \E v \in {reverse(heap.A)} : Unary(v, "reverse")

OpDeterminize ==
  /\ out < MaxOps
  /\ \E pick \in Picks : \E d \in {determinize(heap.A, pick, MaxMacro)} :
       d.ok /\ Unary(d.fst, "determinize")

OpEpsilonRemoval ==
  /\ out < MaxOps
  /\ Cardinality(heap.A.states) <= MaxOrdered
  /\ \E ord \in Permutations(heap.A.states) :
       \E v \in {epsilon_removal(heap.A, ord)} : Unary(v, "epsilon_removal")

OpAccessible ==
  /\ out < MaxOps
  /\ \E v \in {accessible(heap.A)} : Unary(v, "accessible")

OpCoaccessible ==
  /\ out < MaxOps
  /\ \E v \in {coaccessible(heap.A)} : Unary(v, "coaccessible")

OpTrim ==
  /\ out < MaxOps
  /\ \E v \in {trim(heap.A)} : Unary(v, "trim")

OpCopyMod ==
  /\ out < MaxOps
  /\ \E v \in {copy_mod(heap.A, "lambda l, w: l")} : Unary(v, "copy_mod")

OpCopyFiltered ==
  /\ out < MaxOps
  /\ \E v \in {copy_filtered(heap.A, KeepAll)} : Unary(v, "copy_filtered")

OpUnion ==
  /\ out < MaxOps
  /\ \E same \in BOOLEAN :
       \E r \in {union(heap.A, IF same THEN heap.A ELSE heap.B, same)} : Binary(r, same, "union")

OpConcatenate ==
  /\ out < MaxOps
  /\ \E same \in BOOLEAN :
       \E r \in {concatenate(heap.A, IF same THEN heap.A ELSE heap.B, same)} :
          Binary(r, same, "concatenate")

OpCompose ==
  /\ out < MaxOps
  /\ \E same \in BOOLEAN :
       \E r \in {compose(heap.A, IF same THEN heap.A ELSE heap.B, same)} :
          Binary(r, same, "compose")

OpCrossProduct ==
  /\ out < MaxOps
  /\ \E same \in BOOLEAN :
       \E r \in {cross_product(heap.A, IF same THEN heap.A ELSE heap.B, same)} :
          Binary(r, same, "cross_product")

OpIntersection ==
  /\ out < MaxOps
  /\ \E same \in BOOLEAN :
       \E r \in {intersection(heap.A, IF same THEN heap.A ELSE heap.B, same)} :
          Binary(r, same, "intersection")

OpDifference ==
  /\ out < MaxOps
  /\ \E same \in BOOLEAN :
       \E r \in {difference(heap.A, IF same THEN heap.A ELSE heap.B, same)} :
          Binary(r, same, "difference")

NextOps ==
  \/ OpKleene \/ OpOptional \/ OpReverse \/ OpDeterminize \/ OpEpsilonRemoval
  \/ OpAccessible \/ OpCoaccessible \/ OpTrim \/ OpCopyMod \/ OpCopyFiltered
  \/ OpUnion \/ OpConcatenate \/ OpCompose \/ OpCrossProduct \/ OpIntersection
  \/ OpDifference

SpecOps == InitOps /\ [][NextOps]_vars

\* the targets of the transitions of the states of F
Targets(F) == UNION {all_targets(F.st[s]) : s \in F.states}

WellFormed(F) ==
  /\ F.initialstate \in F.states
  /\ F.finalstates \subseteq F.states
  /\ Targets(F) \subseteq F.states

\* C12: in every FST made by the constructors and any sequence of operations
\* the initial state is one of the states, the final states are among the
\* states, and every transition of a state leads to one of the states.
C12_WellFormed == WellFormed(heap.A) /\ WellFormed(heap.B)

\* an operation has taken states away from an FST that an earlier operation
\* made, and transitions with them
C12_Witness ==
  /\ out = MaxOps
  /\ pc \in {"coaccessible", "trim"}
  /\ heap.A.states # snap.A.states
  /\ Targets(heap.A) # Targets(snap.A)

\* a state's transitions as <<label, target, weight>>, one for each object
Arcs(s) == [x \in TransSet(s) |-> <<x[1], s.tobj[x[2]].targetstate, s.tobj[x[2]].weight>>]

NoDuplicates(F) ==
  \A s \in F.states : \A x, y \in TransSet(F.st[s]) :
     x # y => Arcs(F.st[s])[x] # Arcs(F.st[s])[y]

\* C19: in every FST made by the constructors and any sequence of operations
\* no state holds two transitions with the same target, label and weight.
C19_NoDuplicateTransitions == NoDuplicates(heap.A) /\ NoDuplicates(heap.B)

\* the symbols on the transitions of the states of F
Symbols_of(F) == UNION {UNION {Range(x[1]) : x \in TransSet(F.st[s])} : s \in F.states}

AlphabetCovers(F) ==
  /\ "" \notin F.alphabet
  /\ Symbols_of(F) \ {""} \subseteq F.alphabet

\* C20: the alphabet of every FST made by the constructors and any sequence
\* of operations, and of an operand after a binary operator, holds every
\* non-empty symbol of its transitions and does not hold the empty string.
C20_AlphabetCovers == AlphabetCovers(heap.A) /\ AlphabetCovers(heap.B)

----------------------------------------------------------------------------
(* The lazy indices of a State under reads and mutations.  heap.F is an FST, *)
(* out the index as the last read returned it, snap.k the state that was    *)
(* read and snap.n the number of mutations so far.                         *)

MaxMutations == 2

\* {lbl[::-1]:tr for lbl, tr in s.transitions.items()}: a key that comes again
\* keeps its place in the dict and takes the later set of transitions
RECURSIVE InvertDict(_, _)
InvertDict(items, acc) ==
  IF items = <<>> THEN acc
  ELSE
    LET key == [i \in 1..Len(items[1].key) |-> items[1].key[Len(items[1].key) + 1 - i]]
        p == KeyPos([transitions |-> acc], key)
    IN InvertDict(Tail(items),
                  IF p = 0 THEN Append(acc, [key |-> key, ids |-> items[1].ids])
                  ELSE [acc EXCEPT ![p].ids = items[1].ids])

\* FST.invert: self, changed in place
invert(F) ==
  [F EXCEPT !.st = [k \in DOMAIN F.st |->
                      IF k \in F.states
                      THEN [F.st[k] EXCEPT !.transitions = InvertDict(@, <<>>)]
                      ELSE F.st[k]]]

\* a defaultdict(set) index as a function: key -> set of (label, transition)
Grouped(idx, outgoing) ==
  [sym \in Range(IndexKeys(idx, outgoing, <<>>)) |->
     {e \in Range(idx) : (IF outgoing THEN Last(e[1]) ELSE e[1][1]) = sym}]

\* the index that the current transitions of s give
Derived(s, outgoing) == Grouped(all_transitions(s), outgoing)

IndexLabels == {<<"a">>, <<"b">>, <<"a", "b">>, <<".">>}

IndexOperands == {FST(l, 0, {}) : l \in IndexLabels}

InitIndex ==
  /\ heap \in {[F |-> F] : F \in IndexOperands}
  /\ pc = "constructed"
  /\ snap = [k |-> 0, n |-> 0]
  /\ out = <<>>

\* s.transitionsout
ReadTransitionsOut ==
  \E k \in heap.F.states :
    /\ out' = Grouped(transitionsout(heap.F.st[k]), TRUE)
    /\ heap' = [heap EXCEPT !.F.st[k] = ReadOut(@)]
    /\ pc' = "transitionsout"
    /\ snap' = [snap EXCEPT !.k = k]

\* s.transitionsin
ReadTransitionsIn ==
  \E k \in heap.F.states :
    /\ out' = Grouped(transitionsin(heap.F.st[k]), FALSE)
    /\ heap' = [heap EXCEPT !.F.st[k] = ReadIn(@)]
    /\ pc' = "transitionsin"
    /\ snap' = [snap EXCEPT !.k = k]

Mutated(F, name) ==
  /\ snap.n < MaxMutations
  /\ heap' = [heap EXCEPT !.F = F]
  /\ pc' = name
  /\ snap' = [snap EXCEPT !.n = @ + 1]
  /\ UNCHANGED out

\* s.add_transition(other, label, weight)
AddTransition ==
  \E k \in heap.F.states, other \in heap.F.states, label \in IndexLabels :
    Mutated([heap.F EXCEPT !.st[k] = add_transition(@, other, label, 0)], "add_transition")

\* s.remove_transitions_to_targets(targets)
RemoveTransitions ==
  \E k \in heap.F.states, targets \in SUBSET heap.F.states :
    Mutated([heap.F EXCEPT !.st[k] = remove_transitions_to_targets(@, targets)],
            "remove_transitions_to_targets")

\* F.invert()
Invert == Mutated(invert(heap.F), "invert")

\* F.project(-1)
Project == Mutated(project(heap.F), "project")

\* F.union(FST(label)): harmonize_alphabet expands the '.' transitions of F
WildcardExpansion ==
  \E l \in {<<"a">>, <<"b">>} :
    /\ \A k \in heap.F.states : \A x \in TransSet(heap.F.st[k]) : Len(x[1]) = 1
    /\ Mutated(union(heap.F, FST(l, 0, {}), FALSE).self, "harmonize_alphabet")

NextIndex ==
  \/ ReadTransitionsOut
  \/ ReadTransitionsIn
  \/ AddTransition
  \/ RemoveTransitions
  \/ Invert
  \/ Project
  \/ WildcardExpansion

SpecIndex == InitIndex /\ [][NextIndex]_vars

\* C13: a read of transitionsout (transitionsin) of a state returns the index
\* that the state's current transitions give, grouped by the last (first)
\* symbol of the label, whatever reads and mutations came before.
C13_IndexCoherent ==
  /\ pc = "transitionsout" => out = Derived(heap.F.st[snap.k], TRUE)
  /\ pc = "transitionsin" => out = Derived(heap.F.st[snap.k], FALSE)

----------------------------------------------------------------------------
(* trim *)

TrimStates == 4
TrimPath == 4

\* at most three arcs, all with the label a; every state is in states and
\* every target is a state
TrimInputs ==
  {Make(TrimStates, fin, arcs) :
     fin \in [1..TrimStates -> {Inf, 1}],
     arcs \in {{a, b, c} : a, b, c \in ArcsOf(TrimStates, {<<"a">>}, MaxWeight)}}

InitTrim ==
  /\ heap \in {[A |-> F] : F \in TrimInputs}
  /\ pc = "start"
  /\ snap = heap
  /\ out = <<>>

\* A.trim(): A itself is changed and returned
Trim ==
  /\ pc = "start"
  /\ heap' = [A |-> trim(heap.A)]
  /\ pc' = "trimmed"
  /\ UNCHANGED <<snap, out>>

NextTrim == Trim

SpecTrim == InitTrim /\ [][NextTrim]_vars

\* the states of F that a path from s along F's transitions reaches, s included
ReachedFrom(F, s) ==
  {PathEnd([F EXCEPT !.initialstate = s], p) :
     p \in PathsUpTo([F EXCEPT !.initialstate = s], TrimStates)}

\* C14: after trim every remaining state is reached from the initial state,
\* every remaining state but the initial one reaches a final state along the
\* remaining transitions, the initial state remains, and the accepting paths
\* and their weights are those of before.
C14_Trim ==
  pc = "trimmed" =>
    /\ heap.A.initialstate \in heap.A.states
    /\ heap.A.states \subseteq ReachedFrom(heap.A, heap.A.initialstate)
    /\ \A s \in heap.A.states \ {heap.A.initialstate} :
         /\ ReachedFrom(heap.A, s) \cap heap.A.finalstates # {}
         /\ ReachedFrom(heap.A, s) \subseteq heap.A.states
    /\ AcceptingPaths(heap.A, TrimPath) = AcceptingPaths(snap.A, TrimPath)
    /\ \A p \in AcceptingPaths(snap.A, TrimPath) : PathWeight(heap.A, p) = PathWeight(snap.A, p)

\* trim has removed a state that the initial state does not reach and a state
\* that it reaches and that reaches no final state, with the transition into
\* it, and an accepting path with a cycle remains
C14_Witness ==
  /\ pc = "trimmed"
  /\ snap.A.states \ ReachedFrom(snap.A, snap.A.initialstate) # {}
  /\ \E s \in ReachedFrom(snap.A, snap.A.initialstate) \ heap.A.states :
       \E k \in heap.A.states : s \in all_targets(snap.A.st[k]) \ all_targets(heap.A.st[k])
  /\ \E p \in AcceptingPaths(heap.A, TrimPath) : Len(p) >= 2

----------------------------------------------------------------------------
(* words_cheapest and words_nbest.  A generator of words_cheapest is         *)
(* [Q, cntr, yields, done, pops]: its heap as the set of the items          *)
(* [cost, cntr, s, seq] (s = 0 for None), the next value of its counter,    *)
(* what it has yielded, whether it has ended, and the rounds of its loop.   *)

MaxPops == 7
MaxN == 3
CheapWeight == 2

\* the item that a FIFO queue would give: the oldest one
CheapestPop_oldest(Q) ==
  CHOOSE x \in Q : \A y \in Q : x.cntr <= y.cntr

\* heapq.heappop(Q): the least (cost, cntr, ...)
CheapestPop(Q) ==
  CHOOSE x \in Q : \A y \in Q : x.cost < y.cost \/ (x.cost = y.cost /\ x.cntr <= y.cntr)

\* s.all_transitions() in the order the sets of transitions are iterated in
\* (rev: the other order)
Iterated(s, rev) ==
  LET a == all_transitions(s)
  IN IF rev THEN [i \in 1..Len(a) |-> a[Len(a) + 1 - i]] ELSE a

\* cntr = itertools.count(); Q = [(0.0, next(cntr), self.initialstate, [])]
CheapestStart(F) ==
  [Q |-> {[cost |-> 0, cntr |-> 0, s |-> F.initialstate, seq |-> <<>>]},
   cntr |-> 1, yields |-> <<>>, done |-> FALSE, pops |-> 0]

\* one round of "while Q" of words_cheapest, or its end when Q is empty
CheapestStep(F, rev, G) ==
  IF G.Q = {} THEN [G EXCEPT !.done = TRUE]
  ELSE
    LET item == CheapestPop(G.Q)
        Q0 == G.Q \ {item}
        s == item.s
        final == s \in F.finalstates
        c1 == IF final THEN G.cntr + 1 ELSE G.cntr
        tr == Iterated(F.st[s], rev)
    IN IF s = 0
       THEN [G EXCEPT !.Q = Q0, !.pops = @ + 1,
                      !.yields = Append(@, <<item.cost, item.seq>>)]
       ELSE [G EXCEPT
               !.pops = @ + 1,
               !.cntr = c1 + Len(tr),
               !.Q = (IF final
                      THEN Q0 \cup {[cost |-> WAdd(item.cost, F.st[s].finalweight),
                                     cntr |-> G.cntr, s |-> 0, seq |-> item.seq]}
                      ELSE Q0)
                     \cup {[cost |-> WAdd(item.cost, F.st[s].tobj[tr[i][2]].weight),
                            cntr |-> c1 + i - 1,
                            s |-> F.st[s].tobj[tr[i][2]].targetstate,
                            seq |-> Append(item.seq, tr[i][1])] : i \in 1..Len(tr)}]

\* itertools.islice(generator, n): rounds of the generator until it has
\* yielded n items or has ended, at most fuel of them
RECURSIVE Islice(_, _, _, _, _)
Islice(F, rev, G, n, fuel) ==
  IF Len(G.yields) = n \/ G.done \/ fuel = 0 THEN G
  ELSE The({Islice(F, rev, next, n, fuel - 1) : next \in {CheapestStep(F, rev, G)}})

\* FST.words_nbest(n), with the generator it has run
words_nbest(F, rev, n) == Islice(F, rev, CheapestStart(F), n, MaxPops + 1)

CheapInputs == Family(MaxStates, {<<"a">>, <<"b">>}, CheapWeight)

InitCheapest ==
  /\ heap \in {[A |-> F, G |-> CheapestStart(F)] : F \in CheapInputs}
  /\ pc = "words_cheapest"
  /\ snap \in {[rev |-> r, n |-> 0, nbest |-> <<>>] : r \in BOOLEAN}
  /\ out = <<>>

Stepped(name) ==
  /\ ~heap.G.done
  /\ heap.G.pops < MaxPops
  /\ heap' = [heap EXCEPT !.G = CheapestStep(heap.A, snap.rev, @)]
  /\ out' = heap'.G.yields
  /\ pc' = name
  /\ UNCHANGED snap

\* next(generator): the round that yields
CheapestYield ==
  /\ heap.G.Q # {}
  /\ CheapestPop(heap.G.Q).s = 0
  /\ Stepped("yield")

\* a round that pushes the successors of a state
CheapestExpand ==
  /\ heap.G.Q # {}
  /\ CheapestPop(heap.G.Q).s # 0
  /\ Stepped("push")

\* Q is empty: the generator ends
CheapestEnd ==
  /\ heap.G.Q = {}
  /\ Stepped("end")

\* A.words_nbest(n)
WordsNbest ==
  \E n \in 1..MaxN :
    \E r \in {words_nbest(heap.A, snap.rev, n)} :
      /\ Len(r.yields) = n \/ r.done
      /\ snap' = [snap EXCEPT !.n = n, !.nbest = r.yields]
      /\ pc' = "words_nbest"
      /\ UNCHANGED <<heap, out>>

NextCheapest ==
  \/ CheapestYield
  \/ CheapestExpand
  \/ CheapestEnd
  \/ WordsNbest

SpecCheapest == InitCheapest /\ [][NextCheapest]_vars

\* the labels along a path
PathLabels(p) == [i \in 1..Len(p) |-> p[i][2]]

\* C15: what words_cheapest yields is, item by item, the cost and the labels of
\* an accepting path, in non-decreasing order of cost, and words_nbest(n) is
\* the list of the first n items (all of them when there are fewer).
C15_CheapestOrder ==
  /\ \A i \in 1..Len(out) :
       \E p \in AcceptingPaths(heap.A, Len(out[i][2])) :
         PathLabels(p) = out[i][2] /\ PathWeight(heap.A, p) = out[i][1]
  /\ \A i, j \in 1..Len(out) : i < j => out[i][1] <= out[j][1]
  /\ pc = "words_nbest" =>
       /\ Len(out) >= snap.n => snap.nbest = SubSeq(out, 1, snap.n)
       /\ (heap.G.done /\ Len(out) < snap.n) => snap.nbest = out

\* words_cheapest has yielded three words, the last one dearer than the first
\* and pushed before an item it was yielded after, and words_nbest has
\* returned the first two of them
C15_Witness ==
  /\ pc = "words_nbest"
  /\ Len(out) = 3
  /\ snap.n = 2
  /\ out[1][1] < out[3][1]
  /\ Len(out[3][2]) < Len(out[2][2])

----------------------------------------------------------------------------
(* regexparse.compile: X{m,n} for any two counts *)

\* the counts m and n of the token, one and two digits long
RepCounts == {0, 1, 2, 9, 10}

InitRep ==
  /\ heap \in {[lang |-> F] : F \in RangeInputs}
  /\ pc = "start"
  /\ snap = heap
  /\ out = <<>>

\* the RANGE token with the value "m,n"
RangeToken ==
  /\ pc = "start"
  /\ \E m \in RepCounts, n \in RepCounts :
       \E r \in {RangeBetween(heap.lang, m, n)} : Ranged(r, m, n)

NextRep == RangeToken

SpecRep == InitRep /\ [][NextRep]_vars

\* C17: X{m,n} raises the syntax error of the inverted range when m > n and
\* only then.
C17_InvertedRangeRaises ==
  pc # "start" => (pc = "SyntaxError" <=> out[1] > out[2])

----------------------------------------------------------------------------
(* class regexparse.  An expression is the sequence of its lexemes, a lexeme *)
(* being the text of one token: [len, op, sym, chars, rng] with the length  *)
(* of the text, the token type that tokenize gives it and its value (sym: a *)
(* symbol or a name, chars: the characters of a weight or of a character    *)
(* class, rng: the value of a RANGE split at ',', every count as its        *)
(* digits).  A token is [op, sym, chars, rng, line_num, column].            *)

Lex(len, op, sym, chars, rng) ==
  [len |-> len, op |-> op, sym |-> sym, chars |-> chars, rng |-> rng]

\* a b | , ( ) * + ? : & - @
ShortLexemes ==
  {Lex(1, "SYMBOL", s, <<>>, <<>>) : s \in {"a", "b"}}
  \cup {Lex(1, op, "", <<>>, <<>>) :
          op \in {"UNION", "COMMA", "LPAREN", "RPAREN", "STAR", "PLUS", "OPTIONAL", "CP",
                  "INTERSECTION", "MINUS", "COMPOSE"}}

\* {0} {2} {,1} {1,} {1,2} {2,1} {2,2}
RangeLexemes ==
  {Lex(3, "RANGE", "", <<>>, <<Str(0)>>), Lex(3, "RANGE", "", <<>>, <<Str(2)>>),
   Lex(4, "RANGE", "", <<>>, <<<<>>, Str(1)>>), Lex(4, "RANGE", "", <<>>, <<Str(1), <<>>>>),
   Lex(5, "RANGE", "", <<>>, <<Str(1), Str(2)>>), Lex(5, "RANGE", "", <<>>, <<Str(2), Str(1)>>),
   Lex(5, "RANGE", "", <<>>, <<Str(2), Str(2)>>)}

\* <> <+> <1>
WeightLexemes ==
  {Lex(2, "WEIGHT", "", <<>>, <<>>), Lex(3, "WEIGHT", "", <<"+">>, <<>>),
   Lex(3, "WEIGHT", "", <<"1">>, <<>>)}

\* [a-b] [b-a]
ClassLexemes ==
  {Lex(5, "CHAR_CLASS", "", <<"a", "-", "b">>, <<>>),
   Lex(5, "CHAR_CLASS", "", <<"b", "-", "a">>, <<>>)}

\* $x $^f $^reverse $^ignore
NameLexemes ==
  {Lex(2, "VARIABLE", "x", <<>>, <<>>), Lex(3, "FUNC", "f", <<>>, <<>>),
   Lex(9, "FUNC", "reverse", <<>>, <<>>), Lex(8, "FUNC", "ignore", <<>>, <<>>)}

Lexemes == ShortLexemes \cup RangeLexemes \cup WeightLexemes \cup ClassLexemes \cup NameLexemes

\* the text splits into these lexemes: a name takes every letter that follows
\* it, and $^name is a FUNC only before '('
WellLexed(e) ==
  \A i \in 1..Len(e) :
    /\ e[i].op = "FUNC" => (i < Len(e) /\ e[i + 1].op = "LPAREN")
    /\ e[i].op = "VARIABLE" => (i = Len(e) \/ e[i + 1].op # "SYMBOL")

\* regexparse.tokenize: the tokens of a one-line expression, the column of a
\* token being where its text starts
RECURSIVE Tokenize(_, _, _)
Tokenize(e, i, column) ==
  IF i > Len(e) THEN <<>>
  ELSE <<[op |-> e[i].op, sym |-> e[i].sym, chars |-> e[i].chars, rng |-> e[i].rng,
          line_num |-> 1, column |-> column]>>
       \o The({Tokenize(e, i + 1, next) : next \in {column + e[i].len}})

tokenize(e) == Tokenize(e, 1, 0)

precedence ==
  ("FUNC" :> 11) @@ ("CONTAINS" :> 11) @@ ("COMMA" :> 2) @@ ("COMPOSE" :> 3) @@
  ("UNION" :> 4) @@ ("INTERSECTION" :> 4) @@ ("MINUS" :> 4) @@ ("CONCAT" :> 6) @@
  ("IGNORE" :> 7) @@ ("COMPLEMENT" :> 8) @@ ("STAR" :> 9) @@ ("PLUS" :> 9) @@
  ("OPTIONAL" :> 9) @@ ("WEIGHT" :> 9) @@ ("CP" :> 10) @@ ("RANGE" :> 9)

operands == {"SYMBOL", "VARIABLE", "ANY", "EPSILON", "CHAR_CLASS"}

operators == DOMAIN precedence

\* no operator is a postfix unary
unarypost_none == {}

unarypost == {"STAR", "PLUS", "WEIGHT", "OPTIONAL", "RANGE"}

unarypre == {"COMPLEMENT"}

\* regexparse._addconc
RECURSIVE Addconc(_, _, _)
Addconc(tokens, i, counter) ==
  IF i > Len(tokens) THEN <<>>
  ELSE
    LET t == tokens[i]
        conc == counter = 1 /\ t.op \in {"LPAREN", "COMPLEMENT"} \cup operands
        c1 == IF conc THEN 0 ELSE counter
        c2 == IF t.op \in operands THEN 1 ELSE c1
        c3 == IF t.op \in operators \ unarypost THEN 0 ELSE c2
    IN (IF conc THEN <<[op |-> "CONCAT", sym |-> "", chars |-> <<>>, rng |-> <<>>,
                        line_num |-> t.line_num, column |-> t.column]>>
        ELSE <<>>)
       \o <<t>> \o The({Addconc(tokens, i + 1, c) : c \in {c3}})

_addconc(tokens) == Addconc(tokens, 1, 0)

\* raise errortype(errorstring, ("", line_num, column, self.expression))
_error_report(errortype, errorstring, line_num, column) ==
  [raised |-> errortype, message |-> errorstring, payload |-> <<line_num, column>>]

\* an exception that is not raised by _error_report: no payload
Raised(errortype) == [raised |-> errortype, message |-> "", payload |-> <<>>]

NoError == [raised |-> "", message |-> "", payload |-> <<>>]

\* the same, giving up only operators of a greater precedence
RECURSIVE PopWhile_greater(_, _)
PopWhile_greater(stack, token) ==
  IF stack # <<>> /\ Last(stack).op \in operators
     /\ precedence[Last(stack).op] > precedence[token]
  THEN 1 + PopWhile_greater(SubSeq(stack, 1, Len(stack) - 1), token)
  ELSE 0

\* the operators that the stack gives up for the operator token: from the top
\* down to the first entry that is not an operator of at least its precedence
RECURSIVE PopWhile(_, _)
PopWhile(stack, token) ==
  IF stack # <<>> /\ Last(stack).op \in operators
     /\ precedence[Last(stack).op] >= precedence[token]
  THEN 1 + PopWhile(SubSeq(stack, 1, Len(stack) - 1), token)
  ELSE 0

\* the top n entries of the stack, the top first
Popped(stack, n) == [k \in 1..n |-> stack[Len(stack) + 1 - k]]

\* regexparse.parse, one round of its loop: [error, output, stack]
ParseToken(t, output, stack) ==
  IF t.op \in operands \/ t.op \in unarypost
  THEN [error |-> NoError, output |-> Append(output, t), stack |-> stack]
  ELSE IF t.op \in unarypre \/ t.op = "FUNC" \/ t.op = "LPAREN"
  THEN [error |-> NoError, output |-> output, stack |-> Append(stack, t)]
  ELSE IF t.op = "RPAREN"
  THEN LET P == {k \in 1..Len(stack) : stack[k].op = "LPAREN"}
       IN IF P = {}
          THEN [error |-> _error_report("SyntaxError", "Too many closing parentheses.",
                                        t.line_num, t.column),
                output |-> output \o Popped(stack, Len(stack)), stack |-> <<>>]
          ELSE LET lp == CHOOSE k \in P : \A j \in P : j <= k
                   out1 == output \o Popped(stack, Len(stack) - lp)
                   func == lp > 1 /\ stack[lp - 1].op = "FUNC"
               IN [error |-> NoError,
                   output |-> IF func THEN Append(out1, stack[lp - 1]) ELSE out1,
                   stack |-> SubSeq(stack, 1, IF func THEN lp - 2 ELSE lp - 1)]
  ELSE IF t.op \in operators
  THEN LET n == PopWhile(stack, t.op)
       IN [error |-> NoError, output |-> output \o Popped(stack, n),
           stack |-> Append(SubSeq(stack, 1, Len(stack) - n), t)]
  ELSE [error |-> NoError, output |-> output, stack |-> stack]

\* regexparse.parse: [error, output]
RECURSIVE Parse(_, _, _, _)
Parse(tokens, i, output, stack) ==
  IF i > Len(tokens) THEN [error |-> NoError, output |-> output \o Popped(stack, Len(stack))]
  ELSE The({IF r.error.raised # "" THEN [error |-> r.error, output |-> r.output]
            ELSE Parse(tokens, i + 1, r.output, r.stack) :
              r \in {ParseToken(tokens[i], output, stack)}})

parse(tokens) == Parse(tokens, 1, <<>>, <<>>)

\* int(s) for a string of digits
RECURSIVE int(_)
int(d) == IF d = <<>> THEN 0 ELSE 10 * int(SubSeq(d, 1, Len(d) - 1)) + Last(d)

Digit == [c \in {"0", "1", "2"} |-> CASE c = "0" -> 0 [] c = "1" -> 1 [] OTHER -> 2]

\* float(value) for what the WEIGHT pattern lets through without a fraction:
\* a sign or none, then digits or none.  [ok, value]; ok = FALSE: ValueError.
Float(chars) ==
  LET signed == chars # <<>> /\ chars[1] \in {"+", "-"}
      digits == IF signed THEN Tail(chars) ELSE chars
      n == int([i \in 1..Len(digits) |-> Digit[digits[i]]])
  IN IF digits = <<>> THEN [ok |-> FALSE, value |-> 0]
     ELSE [ok |-> TRUE, value |-> IF signed /\ chars[1] = "-" THEN 0 - n ELSE n]

\* FST.add_weight: self, changed in place
add_weight(F, weight) ==
  [F EXCEPT !.st = [k \in DOMAIN F.st |->
                      IF k \in F.finalstates
                      THEN [F.st[k] EXCEPT !.finalweight = WAdd(@, weight)]
                      ELSE F.st[k]]]

\* regexparse.builtins, those that the expressions here call: the number of
\* arguments of the lambda
builtins == [reverse |-> 1, ignore |-> 2]

\* the stack without its top n argument lists
Under(stack, n) == SubSeq(stack, 1, Len(stack) - n)

\* compile's _append after n pops: [error, stack, ok]
Appended(stack, n, element) ==
  [error |-> NoError, stack |-> Append(Under(stack, n), <<element>>), ok |-> TRUE]

\* the token ends the compilation with an error
Failed(stack, error) == [error |-> error, stack |-> stack, ok |-> TRUE]

\* the bound of determinize was reached: no outcome
Unfinished(stack) == [error |-> NoError, stack |-> stack, ok |-> FALSE]

\* One round of the loop of regexparse.compile, for the token t and the stack
\* of argument lists; defined and functions are empty.  pick: the residual
\* that determinize takes.
CompileToken(stack, t, pick) ==
  LET op == t.op
      sense == _error_report("SyntaxError", "You stopped making sense!", t.line_num, t.column)
      n == Len(stack)
      \* _pop: the first FST of the top list, of the list under it
      top == stack[n][1]
      second == stack[n - 1][1]
      binary(value) == IF n < 2 THEN Failed(stack, sense) ELSE Appended(stack, 2, value)
      unary(value) == IF n < 1 THEN Failed(stack, sense) ELSE Appended(stack, 1, value)
      ranged(r) == IF r.raised = "TypeError" THEN Failed(Under(stack, 1), Raised("TypeError"))
                   ELSE IF r.raised = "SyntaxError"
                   THEN Failed(Under(stack, 1),
                               _error_report("SyntaxError", "n must be greater than m in {m,n}",
                                             t.line_num, t.column))
                   ELSE Appended(stack, 1, r.value)
  IN
  CASE op = "FUNC" ->
         IF t.sym \in DOMAIN builtins
         THEN IF n < 1 THEN Failed(stack, sense)
              ELSE IF Len(stack[n]) # builtins[t.sym] THEN Failed(Under(stack, 1), Raised("TypeError"))
              ELSE IF t.sym = "reverse" THEN Appended(stack, 1, reverse(stack[n][1]))
              ELSE Appended(stack, 1, ignore(stack[n][1], stack[n][2]).value)
         ELSE Failed(stack, _error_report("SyntaxError", "Function not defined.",
                                          t.line_num, t.column))
    [] op = "LPAREN" ->
         Failed(stack, _error_report("SyntaxError", "Missing closing parentehesis.",
                                     t.line_num, t.column))
    [] op = "COMMA" ->
         IF n < 2 THEN Failed(stack, sense)
         ELSE [error |-> NoError, ok |-> TRUE,
               stack |-> Append(Under(stack, 2), stack[n - 1] \o stack[n])]
    [] op = "UNION" -> binary(union(top, second, FALSE).value)
    [] op = "MINUS" ->
         IF n < 2 THEN Failed(stack, sense)
         ELSE The({IF d.ok THEN Appended(stack, 2, difference(second, d.fst, FALSE).value)
                   ELSE Unfinished(stack) : d \in {determinize(top, pick, MaxMacro)}})
    [] op = "INTERSECTION" -> binary(coaccessible(intersection(top, second, FALSE).value))
    [] op = "CONCAT" -> binary(accessible(concatenate(second, top, FALSE).value))
    [] op = "STAR" -> unary(kleene_closure(top, "star"))
    [] op = "PLUS" -> unary(kleene_closure(top, "plus"))
    [] op = "COMPOSE" -> binary(coaccessible(compose(second, top, FALSE).value))
    [] op = "OPTIONAL" -> unary(optional(top))
    [] op = "RANGE" ->
         IF n < 1 THEN Failed(stack, sense)
         ELSE IF Len(t.rng) = 1 THEN ranged(RangeExactly(top, int(t.rng[1])))
         ELSE IF t.rng[1] = <<>> THEN ranged(RangeAtMost(top, int(t.rng[2])))
         ELSE IF t.rng[2] = <<>> THEN ranged(RangeAtLeast(top, int(t.rng[1])))
         ELSE ranged(RangeBetween(top, int(t.rng[1]), int(t.rng[2])))
    [] op = "CP" -> binary(coaccessible(cross_product(second, top, FALSE).value))
    [] op = "WEIGHT" ->
         IF n < 1 THEN Failed(stack, sense)
         ELSE IF ~Float(t.chars).ok THEN Failed(stack, Raised("ValueError"))
         ELSE The({Appended(stack, 1, push_weights(W, [s \in DOMAIN W.st |-> s])) :
                     W \in {add_weight(top, Float(t.chars).value)}})
    [] op = "SYMBOL" -> Appended(stack, 0, FST(<<t.sym>>, 0, {}))
    [] op = "VARIABLE" ->
         Failed(stack, _error_report("SyntaxError", "Defined FST not found.",
                                     t.line_num, t.column))
    [] op = "CHAR_CLASS" ->
         The({IF p.raised # "" THEN Failed(stack, Raised(p.raised))
              ELSE Appended(stack, 0, character_ranges(p.ranges, p.negated)) :
                p \in {character_class_parse(t.chars)}})
    [] OTHER -> [error |-> NoError, stack |-> stack, ok |-> TRUE]

\* the loop of regexparse.compile from the token i on
RECURSIVE CompileLoop(_, _, _, _)
CompileLoop(parsed, i, stack, pick) ==
  IF i > Len(parsed) THEN [error |-> NoError, stack |-> stack, ok |-> TRUE]
  ELSE The({IF ~r.ok \/ r.error.raised # "" THEN r
            ELSE CompileLoop(parsed, i + 1, r.stack, pick) :
              r \in {CompileToken(stack, parsed[i], pick)}})

\* regexparse.compile: [error, stack, ok, value], stack being the lengths of
\* the argument lists when the loop is left and value the FST returned
compile(parsed, pick, picks) ==
  The({IF ~c.ok \/ c.error.raised # ""
       THEN [error |-> c.error, stack |-> [k \in 1..Len(c.stack) |-> Len(c.stack[k])],
             ok |-> c.ok, value |-> FST(NoLabel, 0, {})]
       ELSE IF Len(c.stack) # 1
       THEN [error |-> _error_report("SyntaxError", "Something's happening here", 1, 0),
             stack |-> [k \in 1..Len(c.stack) |-> Len(c.stack[k])],
             ok |-> TRUE, value |-> FST(NoLabel, 0, {})]
       ELSE The({[error |-> NoError, stack |-> <<Len(c.stack[1])>>, ok |-> d.ok,
                  value |-> d.fst] : d \in {CompileEnd(c.stack[1][1], picks)}}) :
         c \in {CompileLoop(parsed, 1, <<>>, pick)}})

\* FST.regex(regularexpression): regexparse.__init__ and .compiled
regex(expression, pick, picks) ==
  The({IF parsed.error.raised # ""
       THEN [error |-> parsed.error, stack |-> <<>>, ok |-> TRUE, value |-> FST(NoLabel, 0, {})]
       ELSE compile(parsed.output, pick, picks) :
         parsed \in {The({parse(tokens) : tokens \in {_addconc(tokenize(expression))}})}})

\* the expressions: up to MaxLexemes lexemes, and a call of a function with
\* one or two arguments
MaxLexemes == 3

Operand == {l \in Lexemes : l.op \in {"SYMBOL", "CHAR_CLASS"}}

Of(op) == CHOOSE l \in Lexemes : l.op = op

Calls ==
  {<<f, Of("LPAREN"), x, Of("RPAREN")>> : f \in {l \in Lexemes : l.op = "FUNC"}, x \in Operand}
  \cup {<<f, Of("LPAREN"), x, Of("COMMA"), y, Of("RPAREN")>> :
          f \in {l \in Lexemes : l.op = "FUNC"}, x \in Operand, y \in Operand}

Expressions == {e \in SeqsUpTo(Lexemes, MaxLexemes) : WellLexed(e)} \cup Calls

InitRegex ==
  /\ snap \in {[expression |-> e] : e \in Expressions}
  /\ heap = [defined |-> <<>>]
  /\ pc = "start"
  /\ out = <<>>

\* R = FST.regex(expression)
Regex ==
  /\ pc = "start"
  /\ \E pick \in Picks, picks \in Picks \X Picks :
       \E r \in {regex(snap.expression, pick, picks)} :
         /\ r.ok
         /\ heap' = IF r.error.raised = "" THEN [defined |-> <<>>, R |-> r.value] ELSE heap
         /\ pc' = IF r.error.raised = "" THEN "compiled" ELSE r.error.raised
         /\ out' = [message |-> r.error.message, payload |-> r.error.payload,
                    stack |-> r.stack]
  /\ UNCHANGED snap

NextRegex == Regex

SpecRegex == InitRegex /\ [][NextRegex]_vars

\* C16: an expression compiles only if the stack, when the loop of compile is
\* left, holds one argument list and that list holds one FST.
C16_OneFstLeft == pc = "compiled" => out.stack = <<1>>

\* C18: whatever FST.regex raises is a SyntaxError with its payload (message,
\* line, column, expression).
C18_OneErrorKind ==
  pc \notin {"start", "compiled"} => (pc = "SyntaxError" /\ out.payload # <<>>)

----------------------------------------------------------------------------
(* project *)

\* transducers of two tapes with at most two arcs
ProjectInputs ==
  Family(MaxStates, {<<"a", "a">>, <<"a", "b">>, <<"b", "b">>}, MaxWeight)

InitProject ==
  /\ heap \in {[A |-> F] : F \in ProjectInputs}
  /\ pc = "start"
  /\ snap = heap
  /\ out = <<>>

\* A.project(-1): A itself is changed and returned
ProjectLast ==
  /\ pc = "start"
  /\ heap' = [A |-> project(heap.A)]
  /\ pc' = "projected"
  /\ UNCHANGED <<snap, out>>

NextProject == ProjectLast

SpecProject == InitProject /\ [][NextProject]_vars

\* C21: after project(-1) every transition that a state had is still a
\* transition of that state, under the one-element label of its last tape
\* symbol, with the target and the weight it had.
C21_ProjectKeepsTransitions ==
  pc = "projected" =>
    \A s \in snap.A.states : \A x \in TransSet(snap.A.st[s]) :
      /\ <<<<Last(x[1])>>, x[2]>> \in TransSet(heap.A.st[s])
      /\ heap.A.st[s].tobj[x[2]].targetstate = snap.A.st[s].tobj[x[2]].targetstate
      /\ heap.A.st[s].tobj[x[2]].weight = snap.A.st[s].tobj[x[2]].weight

----------------------------------------------------------------------------
(* compose: the three modes.  heap.R = A @ B; out is S as the sequence of    *)
(* its keys <<state of A, state of B, mode>>, the k-th key being that of    *)
(* the state k of R.                                                       *)

FilterStates == 3
FilterArcs == 3

\* arcs from a state to a later one: the FSTs have finitely many paths
ForwardArcs(labels) ==
  {a \in ArcsOf(FilterStates, labels, 0) : a[1] < a[3]}

\* the last state final, the one before it final or not, at most FilterArcs
\* arcs, no two of them alike
FilterFamily(labels) ==
  {Make(FilterStates, [i \in 1..FilterStates |->
                         IF i = FilterStates \/ (i = FilterStates - 1 /\ mid) THEN 0 ELSE Inf],
        arcs) :
     mid \in BOOLEAN,
     arcs \in {S \in SUBSET ForwardArcs(labels) : Cardinality(S) <= FilterArcs}}

FilterInputs ==
  {[A |-> A, B |-> B] :
     A \in FilterFamily({<<"a", "">>, <<"a", "b">>}),
     B \in FilterFamily({<<"", "c">>, <<"b", "c">>})}

InitFilter ==
  /\ heap \in FilterInputs
  /\ pc = "start"
  /\ snap = heap
  /\ out = <<>>

\* R = A.compose(B)
ComposeModes ==
  /\ pc = "start"
  /\ \E r \in {compose(heap.A, heap.B, FALSE)} :
       heap' = [A |-> r.self, B |-> r.other, R |-> r.value]
  /\ out' = ComposeLoop(heap.A, heap.B,
                        [Q |-> <<<<heap.A.initialstate, heap.B.initialstate, 0>>>>,
                         S |-> <<<<heap.A.initialstate, heap.B.initialstate, 0>>>>,
                         st |-> <<NewState>>, finalstates |-> {}]).S
  /\ pc' = "composed"
  /\ UNCHANGED snap

NextFilter == ComposeModes

SpecFilter == InitFilter /\ [][NextFilter]_vars

\* the transitions of the state s of F that lead to the state t
EdgesTo(F, s, t) == {x \in TransSet(F.st[s]) : F.st[s].tobj[x[2]].targetstate = t}

\* the steps that the modes allow from the key k to the key k2: the pairs of a
\* transition of A and one of B that match (a match of '' with '' from mode 0
\* only), A's transitions on '' (not from mode 2), B's on '' (not from mode 1)
FilterSteps(A, B, k, k2) ==
  CASE k2[3] = 0 ->
         {<<x, y>> \in EdgesTo(A, k[1], k2[1]) \X EdgesTo(B, k[2], k2[2]) :
            Last(x[1]) = y[1][1] /\ (Last(x[1]) # "" \/ k[3] = 0)}
    [] k2[3] = 1 ->
         IF k[3] = 2 \/ k2[2] # k[2] THEN {}
         ELSE {x \in EdgesTo(A, k[1], k2[1]) : Last(x[1]) = ""}
    [] k2[3] = 2 ->
         IF k[3] = 1 \/ k2[1] # k[1] THEN {}
         ELSE {y \in EdgesTo(B, k[2], k2[2]) : y[1][1] = ""}

\* the shared tape along a path, without the ''
SharedOut(p) == SelectSeq([i \in 1..Len(p) |-> Last(p[i][2])], LAMBDA s : s # "")

SharedIn(p) == SelectSeq([i \in 1..Len(p) |-> p[i][2][1]], LAMBDA s : s # "")

\* the pairs of an accepting path of A and one of B that agree on it
Alignments(A, B) ==
  {<<p, q>> \in AcceptingPaths(A, FilterStates) \X AcceptingPaths(B, FilterStates) :
     SharedOut(p) = SharedIn(q)}

\* C22: the transitions of A @ B between two of its states are as many as the
\* steps that the three modes allow between their keys, and the accepting
\* paths of A @ B are as many as the pairs of an accepting path of A and one
\* of B that agree on the shared tape.
C22_EpsilonFilter ==
  pc = "composed" =>
    /\ \A k, k2 \in 1..Len(out) :
         Cardinality(EdgesTo(heap.R, k, k2)) =
           Cardinality(FilterSteps(snap.A, snap.B, out[k], out[k2]))
    /\ Cardinality(AcceptingPaths(heap.R, 2 * FilterStates)) =
         Cardinality(Alignments(snap.A, snap.B))

\* A and B both go through two steps on '' and a match, A @ B has states of
\* the modes 1 and 2, and two pairs of paths agree
C22_Witness ==
  /\ pc = "composed"
  /\ \E k \in 1..Len(out) : out[k][3] = 1
  /\ \E k \in 1..Len(out) : out[k][3] = 2
  /\ \E k, k2 \in 1..Len(out) :
       \E e \in FilterSteps(snap.A, snap.B, out[k], out[k2]) :
         out[k2][3] = 0 /\ Last(e[1][1]) = ""
  /\ Cardinality(Alignments(snap.A, snap.B)) >= 2

----------------------------------------------------------------------------
(* regexparse.parse against the grammar of the expressions.  A token stream  *)
(* is what tokenize and _addconc give for a sequence of lexemes.            *)

MaxParsed == 5

\* a | : , ( ) * $^f
ParseLexemes ==
  {l \in Lexemes : l.op \in {"UNION", "CP", "COMMA", "LPAREN", "RPAREN", "STAR"}
                   \/ (l.op = "SYMBOL" /\ l.sym = "a")
                   \/ (l.op = "FUNC" /\ l.sym = "f")}

TokenStreams ==
  {_addconc(tokenize(e)) : e \in {x \in SeqsUpTo(ParseLexemes, MaxParsed) : WellLexed(x)}}

InitParse ==
  /\ snap \in {[tokens |-> ts] : ts \in TokenStreams}
  /\ heap = [defined |-> <<>>]
  /\ pc = "start"
  /\ out = <<>>

\* self.parsed = self.parse(self.tokenized)
ParseTokens ==
  /\ pc = "start"
  /\ \E r \in {parse(snap.tokens)} :
       /\ pc' = IF r.error.raised = "" THEN "parsed" ELSE r.error.raised
       /\ out' = r.output
  /\ UNCHANGED <<heap, snap>>

NextParse == ParseTokens

SpecParse == InitParse /\ [][NextParse]_vars

\* the binary operators, from the one applied last to the one applied first
Levels == <<{"COMMA"}, {"COMPOSE"}, {"UNION", "INTERSECTION", "MINUS"}, {"CONCAT"}, {"CP"}>>

NoParse == [ok |-> FALSE, post |-> <<>>, next |-> 0]

\* The postfix of the expression that starts at the token i, read by the
\* grammar
\*   expression(L) = expression(L+1) { operator of level L  expression(L+1) }
\*   primary       = (operand | '(' expression(1) ')' | FUNC '(' expression(1) ')')
\*                   { postfix unary }
\* as [ok, post, next]: next is the token after the expression.
RECURSIVE GrammarExpression(_, _, _)
RECURSIVE GrammarRest(_, _, _)
RECURSIVE GrammarUnary(_, _)
GrammarUnary(ts, r) ==
  IF r.ok /\ r.next <= Len(ts) /\ ts[r.next].op \in unarypost
  THEN The({GrammarUnary(ts, n) :
              n \in {[ok |-> TRUE, post |-> Append(r.post, ts[r.next]), next |-> r.next + 1]}})
  ELSE r

GrammarGroup(ts, i, func) ==
  The({IF e.ok /\ e.next <= Len(ts) /\ ts[e.next].op = "RPAREN"
       THEN GrammarUnary(ts, [ok |-> TRUE, post |-> e.post \o func, next |-> e.next + 1])
       ELSE NoParse : e \in {GrammarExpression(ts, i, 1)}})

GrammarPrimary(ts, i) ==
  IF i > Len(ts) THEN NoParse
  ELSE IF ts[i].op \in operands
  THEN GrammarUnary(ts, [ok |-> TRUE, post |-> <<ts[i]>>, next |-> i + 1])
  ELSE IF ts[i].op = "LPAREN" THEN GrammarGroup(ts, i + 1, <<>>)
  ELSE IF ts[i].op = "FUNC" /\ i < Len(ts) /\ ts[i + 1].op = "LPAREN"
  THEN GrammarGroup(ts, i + 2, <<ts[i]>>)
  ELSE NoParse

GrammarRest(ts, r, L) ==
  IF r.ok /\ r.next <= Len(ts) /\ ts[r.next].op \in Levels[L]
  THEN The({IF rhs.ok
            THEN GrammarRest(ts, [ok |-> TRUE, next |-> rhs.next,
                                  post |-> (r.post \o rhs.post) \o <<ts[r.next]>>], L)
            ELSE NoParse : rhs \in {GrammarExpression(ts, r.next + 1, L + 1)}})
  ELSE r

GrammarExpression(ts, i, L) ==
  IF L > Len(Levels) THEN GrammarPrimary(ts, i)
  ELSE The({GrammarRest(ts, first, L) : first \in {GrammarExpression(ts, i, L + 1)}})

\* the whole stream is one expression
Grammatical(ts) ==
  The({IF r.ok /\ r.next = Len(ts) + 1 THEN r ELSE NoParse :
         r \in {GrammarExpression(ts, 1, 1)}})

\* some ')' has no '(' before it that no earlier ')' closes
Unopened(ts) ==
  \E i \in 1..Len(ts) :
    Cardinality({j \in 1..i : ts[j].op = "RPAREN"})
      > Cardinality({j \in 1..i : ts[j].op = "LPAREN"})

\* C23: parse gives a token stream that is an expression the postfix that
\* the grammar gives it (higher precedence first, equal precedence from left
\* to right, a group as a unit with its FUNC right after it, a postfix unary
\* after what precedes it), and raises the syntax error when and only when a
\* closing parenthesis has no opening one.
C23_ParsePostfix ==
  pc # "start" =>
    /\ Grammatical(snap.tokens).ok =>
         (pc = "parsed" /\ out = Grammatical(snap.tokens).post)
    /\ pc = "SyntaxError" <=> Unopened(snap.tokens)

\* a|a a*: a binary operator before one of higher precedence, and a postfix
\* unary, parsed to a a a * CONCAT |
C23_Witness ==
  /\ pc = "parsed"
  /\ Grammatical(snap.tokens).ok
  /\ Len(out) = 6
  /\ out[4].op = "STAR" /\ out[5].op = "CONCAT" /\ out[6].op = "UNION"
  /\ out[5].column > out[6].column

----------------------------------------------------------------------------
(* regexparse._addconc *)

\* a $x | ( ) * ~ $^f
AddconcLexemes ==
  {l \in Lexemes : l.op \in {"UNION", "LPAREN", "RPAREN", "STAR", "VARIABLE"}
                   \/ (l.op = "SYMBOL" /\ l.sym = "a")
                   \/ (l.op = "FUNC" /\ l.sym = "f")}
  \cup {Lex(1, "COMPLEMENT", "", <<>>, <<>>)}

InitAddconc ==
  /\ snap \in {[tokens |-> tokenize(e)] :
                 e \in {x \in SeqsUpTo(AddconcLexemes, MaxParsed) : WellLexed(x)}}
  /\ heap = [defined |-> <<>>]
  /\ pc = "start"
  /\ out = <<>>

\* self.tokenized = self._addconc(self.tokenize())
AddConcatenation ==
  /\ pc = "start"
  /\ out' = _addconc(snap.tokens)
  /\ pc' = "tokenized"
  /\ UNCHANGED <<heap, snap>>

NextAddconc == AddConcatenation

SpecAddconc == InitAddconc /\ [][NextAddconc]_vars

PostfixUnary == {"STAR", "PLUS", "WEIGHT", "OPTIONAL", "RANGE"}

Operands == {"SYMBOL", "VARIABLE", "ANY", "EPSILON", "CHAR_CLASS"}

\* the automaton is in the pending state when it comes to the token i: an
\* operand came before, with only postfix unaries and ')' since
PendingAt(ts, i) ==
  \E j \in 1..(i - 1) :
    /\ ts[j].op \in Operands
    /\ \A k \in (j + 1)..(i - 1) : ts[k].op \in PostfixUnary \cup {"RPAREN"}

\* the positions of the tokens of ts in the result: one further for every
\* CONCAT before them
PlaceOf(ts, i) ==
  i + Cardinality({j \in 1..i :
                     ts[j].op \in {"LPAREN", "COMPLEMENT"} \cup Operands /\ PendingAt(ts, j)})

\* C24: _addconc puts one CONCAT before a token if and only if the token is
\* an LPAREN, a COMPLEMENT or an operand met in the pending state, which an
\* operand enters, a postfix unary and ')' leave as it is, and a binary
\* operator and the CONCAT itself reset; the tokens are otherwise as they were.
C24_ImplicitConcat ==
  pc = "tokenized" =>
    /\ Len(out) = PlaceOf(snap.tokens, Len(snap.tokens))
    /\ \A i \in 1..Len(snap.tokens) : out[PlaceOf(snap.tokens, i)] = snap.tokens[i]
    /\ \A n \in 1..Len(out) :
         n \notin {PlaceOf(snap.tokens, i) : i \in 1..Len(snap.tokens)} => out[n].op = "CONCAT"

\* a*(~$x: one CONCAT, before the '(' met in the state that a entered and *
\* left as it was; none before '~' and $x, which follow the '('
C24_Witness ==
  /\ pc = "tokenized"
  /\ Len(snap.tokens) = 5
  /\ Len(out) = 6
  /\ snap.tokens[2].op = "STAR"
  /\ out[3].op = "CONCAT"
  /\ out[4].op = "LPAREN"
  /\ out[5].op = "COMPLEMENT"

----------------------------------------------------------------------------
(* FST.regex(expression, defined = {'x': X}).  The stack of compile holds   *)
(* objects, and the VARIABLE branch puts defined['x'] itself on it, so the  *)
(* stack is kept here as argument lists of object ids over a sequence objs  *)
(* of FSTs, objs[defined[name]] being the FST defined under the name.       *)

\* the operands of a binary operator as the call leaves them
Store2(objs, self, other, r) ==
  IF self = other THEN [objs EXCEPT ![self] = r.self]
  ELSE [objs EXCEPT ![self] = r.self, ![other] = r.other]

\* the RANGE branch for the token t and the FST lang: the value, lang as the
\* branch leaves it, and whether the value is lang itself ([lang]*1)
RangeBranch(lang, t) ==
  IF Len(t.rng) = 1
  THEN [r |-> RangeExactly(lang, int(t.rng[1])), alias |-> int(t.rng[1]) = 1]
  ELSE IF t.rng[1] = <<>>
  THEN [r |-> RangeAtMost(lang, int(t.rng[2])), alias |-> int(t.rng[2]) = 1]
  ELSE IF t.rng[2] = <<>>
  THEN [r |-> RangeAtLeast(lang, int(t.rng[1])), alias |-> FALSE]
  ELSE [r |-> RangeBetween(lang, int(t.rng[1]), int(t.rng[2])), alias |-> FALSE]

\* VARIABLE: _append(stack, self.defined[value])
VariablePush(objs, stack, id) ==
  [error |-> NoError, ok |-> TRUE, stack |-> Append(stack, <<id>>), objs |-> objs]

\* One round of the loop of regexparse.compile, for the token t, the stack of
\* argument lists of ids and the objects: [error, ok, stack, objs].
DefinedToken(defined, objs, stack, t, pick) ==
  LET op == t.op
      sense == _error_report("SyntaxError", "You stopped making sense!", t.line_num, t.column)
      n == Len(stack)
      top == stack[n][1]
      second == stack[n - 1][1]
      fail(o, error) == [error |-> error, ok |-> TRUE, stack |-> stack, objs |-> o]
      \* _append(stack, value) after k pops
      created(o, k, value) ==
        [error |-> NoError, ok |-> TRUE,
         stack |-> Append(Under(stack, k), <<Len(o) + 1>>), objs |-> Append(o, value)]
      \* _peek(stack) is changed in place
      changed(F) ==
        [error |-> NoError, ok |-> TRUE, stack |-> stack, objs |-> [objs EXCEPT ![top] = F]]
  IN
  IF op \in {"UNION", "MINUS", "INTERSECTION", "CONCAT", "COMPOSE", "CP", "COMMA"} /\ n < 2
  THEN fail(objs, sense)
  ELSE IF op \in {"STAR", "PLUS", "OPTIONAL", "RANGE", "WEIGHT"} /\ n < 1
  THEN fail(objs, sense)
  ELSE
  CASE op = "VARIABLE" ->
         IF t.sym \notin DOMAIN defined
         THEN fail(objs, _error_report("SyntaxError", "Defined FST not found.",
                                       t.line_num, t.column))
         ELSE VariablePush(objs, stack, defined[t.sym])
    [] op = "OPTIONAL" -> changed(optional(objs[top]))
    [] op = "WEIGHT" ->
         IF ~Float(t.chars).ok THEN fail(objs, Raised("ValueError"))
         ELSE The({changed(push_weights(W, [s \in DOMAIN W.st |-> s])) :
                     W \in {add_weight(objs[top], Float(t.chars).value)}})
    [] op = "RANGE" ->
         The({The({IF x.r.raised = "TypeError" THEN fail(o, Raised("TypeError"))
                   ELSE IF x.r.raised = "SyntaxError"
                   THEN fail(o, _error_report("SyntaxError", "n must be greater than m in {m,n}",
                                              t.line_num, t.column))
                   ELSE IF x.alias
                   THEN [error |-> NoError, ok |-> TRUE,
                         stack |-> Append(Under(stack, 1), <<top>>), objs |-> o]
                   ELSE created(o, 1, x.r.value) :
                     o \in {[objs EXCEPT ![top] = x.r.lang]}}) :
                x \in {RangeBranch(objs[top], t)}})
    [] op = "UNION" ->
         The({created(Store2(objs, top, second, r), 2, r.value) :
                r \in {union(objs[top], objs[second], top = second)}})
    [] op = "INTERSECTION" ->
         The({created(Store2(objs, top, second, r), 2, coaccessible(r.value)) :
                r \in {intersection(objs[top], objs[second], top = second)}})
    [] op = "CONCAT" ->
         The({created(Store2(objs, second, top, r), 2, accessible(r.value)) :
                r \in {concatenate(objs[second], objs[top], top = second)}})
    [] op = "COMPOSE" ->
         The({created(Store2(objs, second, top, r), 2, coaccessible(r.value)) :
                r \in {compose(objs[second], objs[top], top = second)}})
    [] op = "CP" ->
         The({created(Store2(objs, second, top, r), 2, coaccessible(r.value)) :
                r \in {cross_product(objs[second], objs[top], top = second)}})
    [] op = "MINUS" ->
         The({IF ~d.ok THEN [error |-> NoError, ok |-> FALSE, stack |-> stack, objs |-> objs]
              ELSE The({created([objs EXCEPT ![second] = r.self], 2, r.value) :
                          r \in {difference(objs[second], d.fst, FALSE)}}) :
                d \in {determinize(objs[top], pick, MaxMacro)}})
    [] op = "COMMA" ->
         [error |-> NoError, ok |-> TRUE, objs |-> objs,
          stack |-> Append(Under(stack, 2), stack[n - 1] \o stack[n])]
    [] op = "STAR" -> created(objs, 1, kleene_closure(objs[top], "star"))
    [] op = "PLUS" -> created(objs, 1, kleene_closure(objs[top], "plus"))
    [] op = "SYMBOL" -> created(objs, 0, FST(<<t.sym>>, 0, {}))
    [] op = "CHAR_CLASS" ->
         The({IF p.raised # "" THEN fail(objs, Raised(p.raised))
              ELSE created(objs, 0, character_ranges(p.ranges, p.negated)) :
                p \in {character_class_parse(t.chars)}})
    [] op = "FUNC" ->
         IF t.sym \notin DOMAIN builtins
         THEN fail(objs, _error_report("SyntaxError", "Function not defined.",
                                       t.line_num, t.column))
         ELSE IF n < 1 THEN fail(objs, sense)
         ELSE IF Len(stack[n]) # builtins[t.sym] THEN fail(objs, Raised("TypeError"))
         ELSE IF t.sym = "reverse" THEN created(objs, 1, reverse(objs[top]))
         ELSE The({created(Store2(objs, stack[n][1], stack[n][2], r), 1, r.value) :
                     r \in {ignore(objs[stack[n][1]], objs[stack[n][2]])}})
    [] op = "LPAREN" ->
         fail(objs, _error_report("SyntaxError", "Missing closing parentehesis.",
                                  t.line_num, t.column))
    [] OTHER -> [error |-> NoError, ok |-> TRUE, stack |-> stack, objs |-> objs]

\* the loop of regexparse.compile from the token i on
RECURSIVE DefinedLoop(_, _, _, _, _, _)
DefinedLoop(defined, parsed, i, objs, stack, pick) ==
  IF i > Len(parsed) THEN [error |-> NoError, ok |-> TRUE, stack |-> stack, objs |-> objs]
  ELSE The({IF ~r.ok \/ r.error.raised # "" THEN r
            ELSE DefinedLoop(defined, parsed, i + 1, r.objs, r.stack, pick) :
              r \in {DefinedToken(defined, objs, stack, parsed[i], pick)}})

\* regexparse.compile with defined: [error, ok, value, objs], objs being the
\* objects as the compilation leaves them.
\* return _pop(stack).trim().push_weights().minimize(): trim and push_weights
\* change the popped FST in place, minimize makes the FST returned.
compile_defined(defined, objs, parsed, pick, picks) ==
  The({IF ~c.ok \/ c.error.raised # ""
       THEN [error |-> c.error, ok |-> c.ok, value |-> FST(NoLabel, 0, {}), objs |-> c.objs]
       ELSE IF Len(c.stack) # 1
       THEN [error |-> _error_report("SyntaxError", "Something's happening here", 1, 0),
             ok |-> TRUE, value |-> FST(NoLabel, 0, {}), objs |-> c.objs]
       ELSE The({The({[error |-> NoError, ok |-> d.ok, value |-> d.fst,
                       objs |-> [c.objs EXCEPT ![c.stack[1][1]] = T]] :
                        d \in {minimize(T, picks, MaxMacro)}}) :
                   T \in {The({push_weights(G, [s \in DOMAIN G.st |-> s]) :
                                 G \in {trim(c.objs[c.stack[1][1]])}})}}) :
         c \in {DefinedLoop(defined, parsed, 1, objs, <<>>, pick)}})

\* FST.regex(regularexpression, defined)
regex_defined(expression, defined, objs, pick, picks) ==
  The({IF parsed.error.raised # ""
       THEN [error |-> parsed.error, ok |-> TRUE, value |-> FST(NoLabel, 0, {}), objs |-> objs]
       ELSE compile_defined(defined, objs, parsed.output, pick, picks) :
         parsed \in {The({parse(tokens) : tokens \in {_addconc(tokenize(expression))}})}})

\* the FSTs defined as x: two states and at most one arc, from the initial
\* state, over a
DefinedInputs ==
  {Make(MaxStates, fin, arcs) :
     fin \in [1..MaxStates -> {Inf} \cup (0..MaxWeight)],
     arcs \in {{}} \cup {{a} : a \in {b \in ArcsOf(MaxStates, {<<"a">>}, MaxWeight) : b[1] = 1}}}

\* $x a | ? <1> {,1}
DefinedLexemes ==
  {l \in Lexemes : l.op \in {"VARIABLE", "UNION", "OPTIONAL"}
                   \/ (l.op = "SYMBOL" /\ l.sym = "a")
                   \/ (l.op = "WEIGHT" /\ l.chars = <<"1">>)
                   \/ (l.op = "RANGE" /\ l.rng = <<<<>>, Str(1)>>)}

\* the expressions in which $x occurs
DefinedExpressions ==
  {e \in SeqsUpTo(DefinedLexemes, MaxLexemes) :
     WellLexed(e) /\ \E i \in 1..Len(e) : e[i].op = "VARIABLE"}

InitDefined ==
  /\ snap \in {[expression |-> e, defined |-> [x |-> X]] :
                 e \in DefinedExpressions, X \in DefinedInputs}
  /\ heap = [defined |-> snap.defined]
  /\ pc = "start"
  /\ out = <<>>

\* FST.regex(expression, defined), the first time and the second
RegexDefined ==
  /\ pc \in {"start", "once"}
  /\ \E pick \in Picks, picks \in Picks \X Picks :
       \E r \in {regex_defined(snap.expression, [x |-> 1], <<heap.defined.x>>, pick, picks)} :
         /\ r.ok
         /\ heap' = [defined |-> [x |-> r.objs[1]]]
         /\ pc' = IF r.error.raised # "" THEN r.error.raised
                  ELSE IF pc = "start" THEN "once" ELSE "twice"
         /\ out' = IF r.error.raised # "" THEN out ELSE Append(out, r.value)
  /\ UNCHANGED snap

NextDefined == RegexDefined

SpecDefined == InitDefined /\ [][NextDefined]_vars

\* the states, transitions, arc weights, final set, final weights and initial
\* state of an FST
Content(F) ==
  [initialstate |-> F.initialstate, states |-> F.states, finalstates |-> F.finalstates,
   st |-> [k \in F.states |-> [transitions |-> F.st[k].transitions, tobj |-> F.st[k].tobj,
                               finalweight |-> F.st[k].finalweight]]]

\* C25: a compilation leaves defined['x'] as it was (its states, transitions,
\* arc weights, final set, final weights and initial state), and the second
\* compilation of an expression gives the language and the weights of the
\* first.
C25_DefinedUntouched ==
  /\ pc \in {"once", "twice"} => Content(heap.defined.x) = Content(snap.defined.x)
  /\ pc = "twice" => SameLanguage(out[1], out[2])

----------------------------------------------------------------------------
(* The label of a Transition and the key it is stored under: invert and     *)
(* project, and then compose                                                *)

\* A over a:b and b:b, B over a:c, unweighted
LabelInputs ==
  {[A |-> X, B |-> Y] : X \in Family(MaxStates, {<<"a", "b">>, <<"b", "b">>}, 0),
                        Y \in Family(MaxStates, {<<"a", "c">>}, 0)}

InitLabel ==
  /\ heap \in LabelInputs
  /\ pc = "start"
  /\ snap = heap
  /\ out = <<>>

\* A.invert(): A itself is changed and returned
InvertSelf ==
  /\ pc = "start"
  /\ heap' = [heap EXCEPT !.A = invert(@)]
  /\ pc' = "inverted"
  /\ UNCHANGED <<snap, out>>

\* A.project(-1)
ProjectSelf ==
  /\ pc = "start"
  /\ heap' = [heap EXCEPT !.A = project(@)]
  /\ pc' = "projected"
  /\ UNCHANGED <<snap, out>>

\* R = A.compose(B), for A as it was built or inverted
ComposeSelf ==
  /\ pc \in {"start", "inverted"}
  /\ \E r \in {compose(heap.A, heap.B, FALSE)} :
       heap' = [A |-> r.self, B |-> r.other, R |-> r.value]
  /\ pc' = IF pc = "start" THEN "composed" ELSE "inverted and composed"
  /\ UNCHANGED <<snap, out>>

NextLabel == InvertSelf \/ ProjectSelf \/ ComposeSelf

SpecLabel == InitLabel /\ [][NextLabel]_vars

\* F with the label of every transition set to the key it is stored under
LabelsFromKeys(F) ==
  [F EXCEPT !.st = [k \in DOMAIN F.st |->
     [F.st[k] EXCEPT !.tobj = [id \in DOMAIN F.st[k].tobj |->
        IF \E x \in TransSet(F.st[k]) : x[2] = id
        THEN [F.st[k].tobj[id] EXCEPT
                !.label = (CHOOSE x \in TransSet(F.st[k]) : x[2] = id)[1]]
        ELSE F.st[k].tobj[id]]]]]

\* C26: every transition stored in a state under the key l has the label l,
\* so the labels of invert(A).compose(B) are those of the composition of the
\* inverted relation with B.
C26_LabelIsKey ==
  /\ \A n \in DOMAIN heap : \A s \in heap[n].states : \A x \in TransSet(heap[n].st[s]) :
       heap[n].st[s].tobj[x[2]].label = x[1]
  /\ pc = "inverted and composed" =>
       heap.R = compose(LabelsFromKeys(invert(snap.A)), snap.B, FALSE).value

====
